---- MODULE Spec2Model ----
(***************************************************************************)
(* A model of the lux ray tracer (crates/lux/src/lib.rs) of jannik4/blox:  *)
(* the fork-join render loop of Renderer::render_into, the recursive       *)
(* Renderer::cast_ray with its shading, reflection and refraction helpers, *)
(* and the colour arithmetic of LinearRgb; and of the voxel intersector of *)
(* the game (src/path_tracer.rs), LuxScene::cast_ray, which walks a ray    *)
(* through the grid of blocks of src/world.rs, with the texture sampler    *)
(* BlockTexture::sample and the system update that decides when a frame is *)
(* rendered; and of BloxWorld (src/world.rs), whose update keeps one       *)
(* entity for every block that is not Air.                                 *)
(*                                                                         *)
(* Numbers.  An f32 is modelled by an exact fraction <<n, d>> in lowest    *)
(* terms with d >= 0.  d = 0 holds the three non-finite values of IEEE     *)
(* arithmetic: <<1, 0>> is +inf, <<-1, 0>> is -inf and <<0, 0>> is NaN.    *)
(* Arithmetic is exact up to a largest denominator and rounds beyond it;   *)
(* overflow of f32 is not modelled; division by zero, the square root of a *)
(* negative number and the propagation of NaN are.                         *)
(***************************************************************************)
EXTENDS Integers, Sequences, FiniteSets, TLC

\* ------------------------------------------------------------------ f32

Abs(i) == IF i < 0 THEN -i ELSE i

Sign(i) == IF i < 0 THEN -1 ELSE IF i > 0 THEN 1 ELSE 0

RECURSIVE Gcd(_, _)
Gcd(a, b) == IF b = 0 THEN a ELSE Gcd(b, a % b)

\* The largest denominator a number keeps: the precision of the model's f32.
MaxDenominator == 10000

\* Definitions pass intermediate values as parameters, which are evaluated
\* once, where the code binds them with let.

LowestBy(n, d, g) == IF g = 0 THEN <<0, 0>> ELSE <<n \div g, d \div g>>

Lowest(n, d) == LowestBy(n, d, Gcd(Abs(n), d))

RoundedBy(q, f) == Lowest(q[1] \div f, q[2] \div f)

Rounded(q) ==
    IF q[2] <= MaxDenominator THEN q
    ELSE RoundedBy(q, (q[2] \div MaxDenominator) + 1)

\* The fraction n/d in lowest terms; n/0 is an infinity or NaN.  A fraction
\* whose denominator exceeds MaxDenominator is rounded to one that does not.
Norm(n, d) == Rounded(Lowest(n, d))

F(n, d) == Norm(n, d)
I(n) == <<n, 1>>

NAN == <<0, 0>>
INFINITY == <<1, 0>>
NEG_INFINITY == <<-1, 0>>
ZERO == <<0, 1>>
ONE == <<1, 1>>
TWO == <<2, 1>>

IsNaN(a) == a = NAN
IsFinite(a) == a[2] # 0

RMul(a, b) == Norm(a[1] * b[1], a[2] * b[2])

RNeg(a) == <<-a[1], a[2]>>

\* inf + inf keeps its sign, inf - inf is NaN (the fraction 0/0).
RAdd(a, b) ==
    IF a[2] = 0 /\ b[2] = 0
    THEN (IF a[1] = b[1] THEN a ELSE NAN)
    ELSE Norm(a[1] * b[2] + b[1] * a[2], a[2] * b[2])

RSub(a, b) == RAdd(a, RNeg(b))

\* 1/0 is +inf (the sign of a zero is not modelled), 1/inf is 0.
RInv(a) ==
    IF a = NAN THEN NAN
    ELSE IF a[1] = 0 THEN INFINITY
    ELSE <<Sign(a[1]) * a[2], Abs(a[1])>>

\* x/0 is an infinity for x # 0 and NaN for x = 0.
RDiv(a, b) == RMul(a, RInv(b))

\* Comparisons with NaN are false.
RLt(a, b) ==
    /\ a # NAN
    /\ b # NAN
    /\ IF a[2] = 0 /\ b[2] = 0 THEN a[1] < b[1]
       ELSE a[1] * b[2] < b[1] * a[2]

RGt(a, b) == RLt(b, a)
RLe(a, b) == a # NAN /\ b # NAN /\ ~RLt(b, a)
RGe(a, b) == RLe(b, a)

\* f32::max: a NaN operand is ignored.
RMax(a, b) ==
    IF a = NAN THEN b
    ELSE IF b = NAN THEN a
    ELSE IF RLt(a, b) THEN b ELSE a

RAbs(a) == <<Abs(a[1]), a[2]>>

Largest(S) == CHOOSE x \in S : \A y \in S : y <= x

\* floor(sqrt(m)), one base-16 digit at a time: the root is in lo..lo+16*unit-1.
\* The square of 46340 is the largest this arithmetic holds.
RECURSIVE ISqrtIn(_, _, _)
ISqrtIn(m, lo, unit) ==
    IF unit = 0 THEN lo
    ELSE ISqrtIn(m,
                 Largest({c \in {lo + k * unit : k \in 0..15} :
                             c <= 46340 /\ c * c <= m}),
                 unit \div 16)

ISqrt(m) == ISqrtIn(m, 0, 4096)

IsSquare(m) == ISqrt(m) * ISqrt(m) = m

\* The largest denominator of the operand of a square root that is not a
\* perfect square: the operand is rounded to it before the root is taken.
SqrtScale == 1000

RoundedTo(q, f) == Lowest(q[1] \div f, q[2] \div f)

\* floor(sqrt(q) * d * k) / (d * k) for q = n / d, as floor(sqrt(n * d * k^2)).
RSqrtBy(q, k) == Norm(ISqrt(q[1] * q[2] * k * k), q[2] * k)

\* k is the largest factor that keeps n * d * k^2 within the integers.
RSqrtOf(q) ==
    IF q[1] = 0 THEN ZERO ELSE RSqrtBy(q, ISqrt(2147395600 \div (q[1] * q[2])))

\* f32::sqrt: NaN for a negative operand, exact on a perfect square, rounded
\* down to four or five digits otherwise.
RSqrt(a) ==
    IF a = NAN \/ a[1] < 0 THEN NAN
    ELSE IF a[2] = 0 THEN INFINITY
    ELSE IF IsSquare(a[1]) /\ IsSquare(a[2]) THEN <<ISqrt(a[1]), ISqrt(a[2])>>
    ELSE IF a[2] <= SqrtScale THEN RSqrtOf(a)
    ELSE RSqrtOf(RoundedTo(a, (a[2] \div SqrtScale) + 1))

\* ------------------------------------------------------- Vec3 and Dir3

Vec3(x, y, z) == <<x, y, z>>

VAdd(a, b) == <<RAdd(a[1], b[1]), RAdd(a[2], b[2]), RAdd(a[3], b[3])>>
VSub(a, b) == <<RSub(a[1], b[1]), RSub(a[2], b[2]), RSub(a[3], b[3])>>
VNeg(a) == <<RNeg(a[1]), RNeg(a[2]), RNeg(a[3])>>
VScale(s, a) == <<RMul(s, a[1]), RMul(s, a[2]), RMul(s, a[3])>>
VDivS(a, s) == <<RDiv(a[1], s), RDiv(a[2], s), RDiv(a[3], s)>>
VDot(a, b) == RAdd(RAdd(RMul(a[1], b[1]), RMul(a[2], b[2])), RMul(a[3], b[3]))

VCross(a, b) ==
    <<RSub(RMul(a[2], b[3]), RMul(a[3], b[2])),
      RSub(RMul(a[3], b[1]), RMul(a[1], b[3])),
      RSub(RMul(a[1], b[2]), RMul(a[2], b[1]))>>

VLengthSquared(a) == VDot(a, a)
VLength(a) == RSqrt(VLengthSquared(a))

\* Vec3::normalize: the vector times the reciprocal of its length; the zero
\* vector gives 0 * inf = NaN in every component, and no failure.
VNormalize(a) == VScale(RInv(VLength(a)), a)

VDistanceSquared(a, b) == VLengthSquared(VSub(a, b))

\* Dir3::new: Err unless the length is finite and positive, else value / length.
Dir3NewAndLength(v, length) ==
    IF IsFinite(length) /\ RGt(length, ZERO)
    THEN [ok |-> TRUE, dir |-> VDivS(v, length)]
    ELSE [ok |-> FALSE, dir |-> v]

Dir3New(v) == Dir3NewAndLength(v, VLength(v))

Ray3d(origin, direction) == [origin |-> origin, direction |-> direction]

\* ------------------------------------------------------------ LinearRgb

LinearRgb(red, green, blue) == <<red, green, blue>>

BLACK == LinearRgb(ZERO, ZERO, ZERO)
WHITE == LinearRgb(ONE, ONE, ONE)
NAN_COLOR == LinearRgb(NAN, NAN, NAN)

CAdd(a, b) == <<RAdd(a[1], b[1]), RAdd(a[2], b[2]), RAdd(a[3], b[3])>>
CMul(a, b) == <<RMul(a[1], b[1]), RMul(a[2], b[2]), RMul(a[3], b[3])>>
CScale(a, s) == <<RMul(a[1], s), RMul(a[2], s), RMul(a[3], s)>>
CDiv(a, s) == <<RDiv(a[1], s), RDiv(a[2], s), RDiv(a[3], s)>>

MixBy(a, b, factor, n_factor) ==
    <<RAdd(RMul(a[1], n_factor), RMul(b[1], factor)),
      RAdd(RMul(a[2], n_factor), RMul(b[2], factor)),
      RAdd(RMul(a[3], n_factor), RMul(b[3], factor))>>

\* impl Mix for LinearRgb
Mix(a, b, factor) == MixBy(a, b, factor, RSub(ONE, factor))

IsFiniteColor(c) == IsFinite(c[1]) /\ IsFinite(c[2]) /\ IsFinite(c[3])

\* std::f32::consts::PI, by the fraction 22/7.
PI == F(22, 7)

\* ------------------------------------------------- materials and lights

Diffuse(albedo) ==
    [kind |-> "Diffuse", albedo |-> albedo, reflectivity |-> ZERO,
     index |-> ONE, transparency |-> ZERO]

Reflective(albedo, reflectivity) ==
    [kind |-> "Reflective", albedo |-> albedo, reflectivity |-> reflectivity,
     index |-> ONE, transparency |-> ZERO]

Refractive(albedo, index, transparency) ==
    [kind |-> "Refractive", albedo |-> albedo, reflectivity |-> ZERO,
     index |-> index, transparency |-> transparency]

Ambient(color, intensity) ==
    [kind |-> "Ambient", color |-> color, intensity |-> intensity,
     direction |-> Vec3(ZERO, ZERO, ZERO), position |-> Vec3(ZERO, ZERO, ZERO)]

Directional(direction, color, intensity) ==
    [kind |-> "Directional", color |-> color, intensity |-> intensity,
     direction |-> direction, position |-> Vec3(ZERO, ZERO, ZERO)]

Point(position, color, intensity) ==
    [kind |-> "Point", color |-> color, intensity |-> intensity,
     direction |-> Vec3(ZERO, ZERO, ZERO), position |-> position]

RayHit(material, position, normal, distance) ==
    [some |-> TRUE, material |-> material, position |-> position,
     normal |-> normal, distance |-> distance]

None == [some |-> FALSE]

\* ------------------------------------------------------------- Renderer

\* Renderer::shadow_bias and Renderer::max_recursion_depth, as init sets them.
shadow_bias == F(1, 1000)
max_recursion_depth == 10

\* A camera holds tan(fov / 2) in place of fov: the tangent is not computed.
Camera(translation, direction, up, tan_half_fov, background) ==
    [translation |-> translation, direction |-> direction, up |-> up,
     tan_half_fov |-> tan_half_fov, background |-> background]

\* Renderer::init, from its viewport_u, viewport_v and w.
RendererFrom(camera, dimensions, focal_length, w, viewport_u, viewport_v) ==
    [camera |-> camera,
     dimensions |-> dimensions,
     pixel_delta_u |-> VDivS(viewport_u, I(dimensions[1])),
     pixel_delta_v |-> VDivS(viewport_v, I(dimensions[2])),
     top_left_pixel |->
         VAdd(VSub(VSub(VSub(camera.translation, VScale(focal_length, w)),
                        VDivS(viewport_u, TWO)),
                   VDivS(viewport_v, TWO)),
              VScale(F(1, 2), VAdd(VDivS(viewport_u, I(dimensions[1])),
                                   VDivS(viewport_v, I(dimensions[2]))))),
     shadow_bias |-> shadow_bias,
     max_recursion_depth |-> max_recursion_depth]

\* Renderer::init, from its viewport size and its basis u, v, w.
RendererBasis(camera, dimensions, focal_length, viewport_width, viewport_height, u, v, w) ==
    RendererFrom(camera, dimensions, focal_length, w,
                 VScale(viewport_width, u), VScale(viewport_height, VNeg(v)))

RendererU(camera, dimensions, focal_length, viewport_height, w, u) ==
    RendererBasis(camera, dimensions, focal_length,
                  RMul(viewport_height, RDiv(I(dimensions[1]), I(dimensions[2]))),
                  viewport_height, u, VCross(w, u), w)

RendererW(camera, dimensions, focal_length, viewport_height, w) ==
    RendererU(camera, dimensions, focal_length, viewport_height, w,
              VNormalize(VCross(camera.up, w)))

\* Renderer::init.  dimensions is <<x, y>>.
RendererInit(camera, dimensions) ==
    RendererW(camera, dimensions, ONE, RMul(RMul(TWO, camera.tan_half_fov), ONE),
              VNeg(camera.direction))

\* ---------------------------------------------------------------- Scene

\* The Scene trait is implemented outside the tracer.  A scene of the model
\* answers a ray by the signs of its direction: hits maps some sign triples to
\* the RayHit the scene reports for every ray of that direction class, and a
\* hit farther than max_distance is not reported.
DirKey(direction) ==
    <<Sign(direction[1][1]), Sign(direction[2][1]), Sign(direction[3][1])>>

Scene(lights, hits) == [lights |-> lights, hits |-> hits]

SceneAnswer(scene, key, max_distance) ==
    IF key \in DOMAIN scene.hits /\ RLe(scene.hits[key].distance, max_distance)
    THEN scene.hits[key]
    ELSE None

SceneCastRay(scene, ray, max_distance) ==
    SceneAnswer(scene, DirKey(ray.direction), max_distance)

\* One entry of a traced call's record of what it did, in the order it did it:
\* "trace" (a cast_ray call at depth, num its caller's depth, -1 for the
\* outermost), "query" (scene.cast_ray for a traced ray, num the max distance),
\* "shade" (a shade_diffuse call), "shadow" (scene.cast_ray for a shadow ray,
\* num the max distance), "fresnel" (a fresnel call, num its result),
\* "transmit" (a transmission_ray call, num its k),
\* "panic" (an unwrap of an Err).
Event(ev, depth, num) == [ev |-> ev, depth |-> depth, num |-> num]

\* The "shadow" entry also holds the ray of the query and whether the scene
\* reported a hit.
ShadowEvent(depth, ray, max_distance, hit) ==
    [ev |-> "shadow", depth |-> depth, num |-> max_distance, ray |-> ray, hit |-> hit]

\* ---------------------------------------------------- rays of the tracer

\* Renderer::shadow_ray
shadow_ray(self, surface_position, surface_normal, dir_to_light) ==
    Ray3d(VAdd(surface_position,
               VScale(self.shadow_bias, VAdd(surface_normal, dir_to_light))),
          dir_to_light)

ReflectTo(self, hit, normal, d) ==
    [ok |-> d.ok,
     ray |-> Ray3d(VAdd(hit, VScale(self.shadow_bias, VAdd(normal, d.dir))), d.dir)]

\* Renderer::reflect_ray; ok is FALSE where Dir3::new(..).unwrap() panics.
reflect_ray(self, direction, hit, normal) ==
    ReflectTo(self, hit, normal,
              Dir3New(VSub(direction,
                           VScale(RMul(TWO, VDot(direction, normal)), normal))))

TransmitTo(self, hit, n, k, d) ==
    [ok |-> d.ok,
     k |-> k,
     ray |-> Ray3d(VAdd(hit, VScale(self.shadow_bias, VAdd(VNeg(n), d.dir))), d.dir)]

TransmitK(self, direction, hit, n, i_dot_n, eta, k) ==
    TransmitTo(self, hit, n, k,
               Dir3New(VSub(VScale(eta, VAdd(direction, VScale(i_dot_n, n))),
                            VScale(RSqrt(k), n))))

\* The k of Renderer::transmission_ray.
TransmissionK(eta, i_dot_n) ==
    RSub(ONE, RMul(RMul(eta, eta), RSub(ONE, RMul(i_dot_n, i_dot_n))))

TransmitEta(self, direction, hit, n, i_dot_n, eta) ==
    TransmitK(self, direction, hit, n, i_dot_n, eta, TransmissionK(eta, i_dot_n))

\* The branch of Renderer::transmission_ray on i_dot_n < 0.0: outside the
\* surface, and otherwise inside (the normal inverted, the indices swapped).
TransmitSide(self, direction, hit, normal, index, i_dot_n) ==
    IF RLt(i_dot_n, ZERO)
    THEN TransmitEta(self, direction, hit, normal, RNeg(i_dot_n), RDiv(ONE, index))
    ELSE TransmitEta(self, direction, hit, VNeg(normal), i_dot_n, RDiv(index, ONE))

\* Renderer::transmission_ray; ok is FALSE where Dir3::new(..).unwrap() panics.
transmission_ray(self, direction, hit, normal, index) ==
    TransmitSide(self, direction, hit, normal, index, VDot(direction, normal))

\* (r_s^2 + r_p^2) / 2
Unpolarised(r_s, r_p) == RDiv(RAdd(RMul(r_s, r_s), RMul(r_p, r_p)), TWO)

\* The reflectance of fresnel from its cos_i and cos_t.
Reflectance(eta_i, eta_t, cos_i, cos_t) ==
    Unpolarised(RDiv(RSub(RMul(eta_t, cos_i), RMul(eta_i, cos_t)),
                     RAdd(RMul(eta_t, cos_i), RMul(eta_i, cos_t))),
                RDiv(RSub(RMul(eta_i, cos_i), RMul(eta_t, cos_t)),
                     RAdd(RMul(eta_i, cos_i), RMul(eta_t, cos_t))))

\* The else branch of fresnel from its cos_t: cos_i is cos_t.abs().
FresnelCosT(eta_i, eta_t, cos_t) == Reflectance(eta_i, eta_t, RAbs(cos_t), cos_t)

FresnelSinT(eta_i, eta_t, sin_t) ==
    IF RGt(sin_t, ONE) THEN ONE
    ELSE FresnelCosT(eta_i, eta_t, RSqrt(RMax(RSub(ONE, RMul(sin_t, sin_t)), ZERO)))

\* The sin_t of fresnel.
SinT(dir_dot_n, eta_i, eta_t) ==
    RMul(RDiv(eta_i, eta_t),
         RSqrt(RMax(RSub(ONE, RMul(dir_dot_n, dir_dot_n)), ZERO)))

FresnelDot(dir_dot_n, index) ==
    IF RGt(dir_dot_n, ZERO)
    THEN FresnelSinT(index, ONE, SinT(dir_dot_n, index, ONE))
    ELSE FresnelSinT(ONE, index, SinT(dir_dot_n, ONE, index))

\* fresnel
fresnel(direction, normal, index) == FresnelDot(VDot(direction, normal), index)

\* -------------------------------------------------------------- shading

\* The outcome of a call: ok is FALSE where the call panicked, color is what it
\* returned, log is what it did.
Outcome(ok, color, log) == [ok |-> ok, color |-> color, log |-> log]

\* What a light adds to the result of shade_diffuse when nothing shadows it.
Lit(albedo, light, light_power) ==
    CDiv(CScale(CMul(albedo, light.color), light_power), PI)

\* An iteration that adds the share of its light whatever the shadow test says.
ShadowedAnyway(self, scene, albedo, surface_position, surface_normal, depth, light, acc, dir_to_light, max_distance, light_intensity) ==
    Outcome(TRUE,
            CAdd(acc.color,
                 Lit(albedo, light,
                     RMul(RMax(VDot(surface_normal, dir_to_light), ZERO),
                          light_intensity))),
            Append(acc.log,
                   ShadowEvent(depth,
                               shadow_ray(self, surface_position, surface_normal,
                                          dir_to_light),
                               max_distance,
                               SceneCastRay(scene,
                                            shadow_ray(self, surface_position,
                                                       surface_normal, dir_to_light),
                                            max_distance).some)))

\* The rest of a Directional or Point iteration of the loop of
\* Renderer::shade_diffuse: the shadow test with its max distance, then the
\* light's share; light_intensity is what the light sends when nothing shadows it.
Shadowed(self, scene, albedo, surface_position, surface_normal, depth, light, acc, dir_to_light, max_distance, light_intensity) ==
    IF SceneCastRay(scene,
                    shadow_ray(self, surface_position, surface_normal, dir_to_light),
                    max_distance).some
    THEN Outcome(TRUE, acc.color,
                 Append(acc.log,
                        ShadowEvent(depth,
                                    shadow_ray(self, surface_position, surface_normal,
                                               dir_to_light),
                                    max_distance, TRUE)))
    ELSE Outcome(TRUE,
                 CAdd(acc.color,
                      Lit(albedo, light,
                          RMul(RMax(VDot(surface_normal, dir_to_light), ZERO),
                               light_intensity))),
                 Append(acc.log,
                        ShadowEvent(depth,
                                    shadow_ray(self, surface_position, surface_normal,
                                               dir_to_light),
                                    max_distance, FALSE)))

\* The Point arm of the loop of Renderer::shade_diffuse; d is
\* Dir3::new(position - surface_position), unwrapped.
PointLight(self, scene, albedo, surface_position, surface_normal, depth, light, acc, d, distance_squared) ==
    IF ~d.ok
    THEN Outcome(FALSE, acc.color, Append(acc.log, Event("panic", depth, ZERO)))
    ELSE Shadowed(self, scene, albedo, surface_position, surface_normal, depth, light,
                  acc, d.dir, RSqrt(distance_squared),
                  RDiv(light.intensity, RMul(RMul(I(4), PI), distance_squared)))

\* An iteration that tests an Ambient light for a shadow like a Directional one.
ShadeLightAmbientTested(self, scene, albedo, surface_position, surface_normal, depth, light, acc) ==
    IF light.kind = "Point"
    THEN PointLight(self, scene, albedo, surface_position, surface_normal, depth,
                    light, acc, Dir3New(VSub(light.position, surface_position)),
                    VDistanceSquared(light.position, surface_position))
    ELSE Shadowed(self, scene, albedo, surface_position, surface_normal, depth, light,
                  acc, VNeg(light.direction), INFINITY, light.intensity)

\* One iteration of the loop of Renderer::shade_diffuse, acc the outcome so far.
ShadeLight(self, scene, albedo, surface_position, surface_normal, depth, light, acc) ==
    IF light.kind = "Ambient"
    THEN Outcome(TRUE,
                 CAdd(acc.color, CScale(CMul(albedo, light.color), light.intensity)),
                 acc.log)
    ELSE IF light.kind = "Directional"
    THEN Shadowed(self, scene, albedo, surface_position, surface_normal, depth, light,
                  acc, VNeg(light.direction), INFINITY, light.intensity)
    ELSE PointLight(self, scene, albedo, surface_position, surface_normal, depth,
                    light, acc, Dir3New(VSub(light.position, surface_position)),
                    VDistanceSquared(light.position, surface_position))

RECURSIVE ShadeFrom(_, _, _, _, _, _, _, _)
ShadeFrom(self, scene, albedo, surface_position, surface_normal, depth, i, acc) ==
    IF i > Len(scene.lights) \/ ~acc.ok THEN acc
    ELSE ShadeFrom(self, scene, albedo, surface_position, surface_normal, depth, i + 1,
                   ShadeLight(self, scene, albedo, surface_position, surface_normal,
                              depth, scene.lights[i], acc))

\* Renderer::shade_diffuse, called by the cast_ray call at depth.
shade_diffuse(self, scene, albedo, surface_position, surface_normal, depth) ==
    ShadeFrom(self, scene, albedo, surface_position, surface_normal, depth, 1,
              Outcome(TRUE, BLACK, <<Event("shade", depth, ZERO)>>))

\* ----------------------------------------------------------------- Trace

\* A call that passes on a depth two greater than its own.
NextDepthTwo(depth) == depth + 2

\* The depth a call passes to the calls it makes: depth + 1.
NextDepth(depth) == depth + 1

\* Whether cast_ray returns the background without asking the scene.
AtDepthLimit(self, depth) == depth >= self.max_recursion_depth

\* The weight of the reflected colour at a Reflective hit.
ReflectWeight(material) == material.reflectivity

\* What cast_ray did before it looked at the material of the surface.
Asked(depth, caller) ==
    <<Event("trace", depth, I(caller)), Event("query", depth, INFINITY)>>

\* The Reflective arm of cast_ray, from the outcome of shade_diffuse (this),
\* the reflected ray (rr) and the outcome of its trace (reflected).
ReflectiveArm(material, depth, caller, this, rr, reflected) ==
    IF ~this.ok THEN Outcome(FALSE, this.color, Asked(depth, caller) \o this.log)
    ELSE IF ~rr.ok
    THEN Outcome(FALSE, this.color,
                 Asked(depth, caller) \o this.log \o <<Event("panic", depth, ZERO)>>)
    ELSE Outcome(reflected.ok,
                 Mix(this.color, reflected.color, ReflectWeight(material)),
                 Asked(depth, caller) \o this.log \o reflected.log)

\* The Refractive arm of cast_ray, from kr, the transmitted ray (tr) and the
\* outcome of its trace (refracted; BLACK without a trace where kr >= 1), the
\* reflected ray (rr) and the outcome of its trace (reflected).
RefractiveLog(material, depth, caller, kr, tr, refracted, rr, reflected, tlog) ==
    IF RLt(kr, ONE) /\ ~tr.ok
    THEN Outcome(FALSE, BLACK,
                 Asked(depth, caller) \o tlog \o <<Event("panic", depth, ZERO)>>)
    ELSE IF ~refracted.ok
    THEN Outcome(FALSE, BLACK, Asked(depth, caller) \o tlog \o refracted.log)
    ELSE IF ~rr.ok
    THEN Outcome(FALSE, BLACK,
                 Asked(depth, caller) \o tlog \o refracted.log
                     \o <<Event("panic", depth, ZERO)>>)
    ELSE Outcome(reflected.ok,
                 Mix(CScale(CMul(material.albedo, refracted.color),
                            material.transparency),
                     reflected.color, kr),
                 Asked(depth, caller) \o tlog \o refracted.log \o reflected.log)

RefractiveArm(material, depth, caller, kr, tr, refracted, rr, reflected) ==
    RefractiveLog(material, depth, caller, kr, tr, refracted, rr, reflected,
                  IF RLt(kr, ONE)
                  THEN <<Event("fresnel", depth, kr), Event("transmit", depth, tr.k)>>
                  ELSE <<Event("fresnel", depth, kr)>>)

RECURSIVE cast_ray(_, _, _, _, _)

\* The Diffuse arm of cast_ray, from the outcome of shade_diffuse.
DiffuseArm(depth, caller, this) ==
    Outcome(this.ok, this.color, Asked(depth, caller) \o this.log)

\* The Reflective arm of cast_ray, from the outcome of shade_diffuse and the
\* reflected ray.  A trace that follows a panic is not made.
ReflectiveRay(self, scene, material, depth, caller, this, rr) ==
    ReflectiveArm(material, depth, caller, this, rr,
                  cast_ray(self, scene, rr.ray, NextDepth(depth), depth))

\* The Refractive arm of cast_ray, from kr and the two rays.
RefractiveRays(self, scene, material, depth, caller, kr, tr, rr) ==
    RefractiveArm(material, depth, caller, kr, tr,
                  IF RLt(kr, ONE)
                  THEN cast_ray(self, scene, tr.ray, NextDepth(depth), depth)
                  ELSE Outcome(TRUE, BLACK, <<>>),
                  rr,
                  cast_ray(self, scene, rr.ray, NextDepth(depth), depth))

\* The match of cast_ray on the material of the surface the scene reported.
SurfaceArm(self, scene, ray, depth, caller, surface) ==
    IF ~surface.some
    THEN Outcome(TRUE, self.camera.background, Asked(depth, caller))
    ELSE IF surface.material.kind = "Diffuse"
    THEN DiffuseArm(depth, caller,
                    shade_diffuse(self, scene, surface.material.albedo,
                                  surface.position, surface.normal, depth))
    ELSE IF surface.material.kind = "Reflective"
    THEN ReflectiveRay(self, scene, surface.material, depth, caller,
                       shade_diffuse(self, scene, surface.material.albedo,
                                     surface.position, surface.normal, depth),
                       reflect_ray(self, ray.direction, surface.position,
                                   surface.normal))
    ELSE RefractiveRays(self, scene, surface.material, depth, caller,
                        fresnel(ray.direction, surface.normal, surface.material.index),
                        transmission_ray(self, ray.direction, surface.position,
                                         surface.normal, surface.material.index),
                        reflect_ray(self, ray.direction, surface.position,
                                    surface.normal))

\* Renderer::cast_ray, called at depth by the call at depth caller (-1: by
\* render_pixel).
cast_ray(self, scene, ray, depth, caller) ==
    IF AtDepthLimit(self, depth)
    THEN Outcome(TRUE, self.camera.background, <<Event("trace", depth, I(caller))>>)
    ELSE SurfaceArm(self, scene, ray, depth, caller, SceneCastRay(scene, ray, INFINITY))

PrimaryRay(self, scene, d) ==
    IF ~d.ok THEN Outcome(FALSE, BLACK, <<Event("panic", 0, ZERO)>>)
    ELSE cast_ray(self, scene, Ray3d(self.camera.translation, d.dir), 0, -1)

\* A sample point that takes the column of a pixel for its row.
PixelPointTransposed(self, pixel) ==
    VAdd(VAdd(self.top_left_pixel, VScale(I(pixel[2]), self.pixel_delta_u)),
         VScale(I(pixel[1]), self.pixel_delta_v))

\* The sample point of a pixel.
PixelPoint(self, pixel) ==
    VAdd(VAdd(self.top_left_pixel, VScale(I(pixel[1]), self.pixel_delta_u)),
         VScale(I(pixel[2]), self.pixel_delta_v))

\* Renderer::render_pixel, before its conversion to Color; pixel is <<x, y>>.
render_pixel(self, scene, pixel) ==
    PrimaryRay(self, scene,
               Dir3New(VSub(PixelPoint(self, pixel), self.camera.translation)))

\* ------------------------------------------------------ inputs of a trace

\* Directions of traced rays: unit vectors with rational components.
DirDown == Vec3(ZERO, I(-1), ZERO)
DirSteep == Vec3(F(3, 5), F(-4, 5), ZERO)
DirShallow == Vec3(F(4, 5), F(-3, 5), ZERO)
DirUp == Vec3(F(4, 5), F(3, 5), ZERO)
TraceDirections == {DirDown, DirSteep, DirShallow, DirUp}

\* Normals a scene reports for the first surface: facing up, and sideways
\* (perpendicular to DirDown: grazing incidence).
NormalUp == Vec3(ZERO, ONE, ZERO)
NormalSide == Vec3(ONE, ZERO, ZERO)
SurfaceNormals == {NormalUp, NormalSide}

Grey == LinearRgb(F(1, 2), F(1, 2), F(1, 2))
Sky == LinearRgb(F(1, 4), F(1, 2), ONE)
Warm == LinearRgb(ONE, F(1, 2), F(1, 4))

Materials ==
    {Diffuse(Grey),
     Reflective(Grey, ZERO), Reflective(Grey, F(1, 2)), Reflective(Grey, ONE),
     Refractive(Grey, F(4, 3), ONE), Refractive(Warm, F(5, 4), F(1, 2))}

\* Where the two surfaces of a scene are hit, and how far along the ray.
FirstPosition == Vec3(ZERO, ZERO, ZERO)
SecondPosition == Vec3(ZERO, TWO, ZERO)
FirstDistance == ONE
SecondDistance == TWO

\* Light lists: none, one of each kind, a Point light lying on the first
\* surface's hit point, and a mixed list.
LightAbove == Point(Vec3(ZERO, ONE, ZERO), WHITE, RMul(I(4), PI))
LightOnSurface == Point(FirstPosition, WHITE, ONE)
LightOnSecond == Point(SecondPosition, WHITE, ONE)
Sun == Directional(Vec3(ZERO, I(-1), ZERO), Warm, TWO)
Fill == Ambient(Sky, F(1, 2))
\* A Directional light that shines upwards, from behind an upward surface.
Underglow == Directional(Vec3(ZERO, ONE, ZERO), Warm, TWO)
LightLists ==
    {<<>>, <<Fill>>, <<Sun>>, <<LightAbove>>, <<LightOnSurface>>, <<LightOnSecond>>,
     <<Fill, Sun, LightAbove>>, <<Underglow>>}

SignKeys == {<<a, b, c>> : a \in {-1, 0, 1}, b \in {-1, 0, 1}, c \in {-1, 0, 1}}

\* No second surface: rays of the other direction classes leave the scene.
NoSurface ==
    [kind |-> "None", albedo |-> BLACK, reflectivity |-> ZERO,
     index |-> ONE, transparency |-> ZERO]

\* The scene of two surfaces: rays of the direction class `key` hit `first`
\* (normal `normal`), rays of every other class hit `second` (the opposite
\* normal, as a facing surface); NoSurface for a surface that is not there.
TwoSurfaceScene(key, first, normal, second, lights) ==
    Scene(lights,
          [k \in (IF first.kind = "None" THEN {} ELSE {key})
                    \cup (IF second.kind = "None" THEN {} ELSE SignKeys \ {key}) |->
              IF k = key
              THEN RayHit(first, FirstPosition, normal, FirstDistance)
              ELSE RayHit(second, SecondPosition, VNeg(normal), SecondDistance)])

TraceCamera == Camera(Vec3(ZERO, ZERO, ZERO), Vec3(ZERO, ZERO, I(-1)),
                      Vec3(ZERO, ONE, ZERO), ONE, Sky)

\* A camera that looks along its up vector, and the cameras of a render.
UpwardCamera == Camera(Vec3(ZERO, ZERO, ZERO), Vec3(ZERO, ONE, ZERO),
                       Vec3(ZERO, ONE, ZERO), ONE, Sky)

Cameras == {TraceCamera, UpwardCamera}

\* Depths at which a trace of the model starts.
StartDepths == {0, max_recursion_depth - 1, max_recursion_depth, max_recursion_depth + 1}

\* One input of a trace: the two surfaces of the scene, the lights, the ray's
\* direction and the depth of the call.
TraceInput(first, normal, second, lights, direction, depth) ==
    [first |-> first, normal |-> normal, second |-> second, lights |-> lights,
     direction |-> direction, depth |-> depth]

\* A Refractive hit makes two calls, so a scene with a Refractive surface and a
\* second surface makes a tree of calls: such a trace starts at most DeepStart
\* levels above the depth limit.  A call at or beyond the limit does no work, so
\* one light list is enough there.
DeepStart == 2

Admitted(i) ==
    /\ (i.depth >= max_recursion_depth) => (i.lights = <<>>)
    /\ (i.first.kind = "None") => (i.second.kind = "None")
    /\ (i.second.kind # "None"
          /\ (i.first.kind = "Refractive" \/ i.second.kind = "Refractive"))
       => (i.depth >= max_recursion_depth - DeepStart)

TraceInputs ==
    {i \in {TraceInput(first, normal, second, lights, direction, depth) :
              first \in Materials \cup {NoSurface}, normal \in SurfaceNormals,
              second \in Materials \cup {NoSurface}, lights \in LightLists,
              direction \in TraceDirections,
              depth \in StartDepths \cup {max_recursion_depth - DeepStart}} :
        Admitted(i)}

InputScene(i) == TwoSurfaceScene(DirKey(i.direction), i.first, i.normal, i.second, i.lights)

\* The ray of an input starts one unit before the first surface.
InputRay(i) == Ray3d(VSub(FirstPosition, i.direction), i.direction)

\* ------------------------------------------------------ inputs of a render

\* Largest image and largest thread::available_parallelism() of the model, and
\* the number of render calls one behaviour makes.
MaxWidth == 3
MaxHeight == 3
MaxThreads == 3
MaxRuns == 2

\* Color::BLACK, and LinearRgb -> Color (From<LinearRgb> for Color).
ColorBLACK ==
    [space |-> "Srgba", red |-> ZERO, green |-> ZERO, blue |-> ZERO, alpha |-> ONE]

ToColor(value) ==
    [space |-> "LinearRgba", red |-> value[1], green |-> value[2], blue |-> value[3],
     alpha |-> ONE]

\* What a buffer handed to render_into holds before the call.
ColorStale ==
    [space |-> "Srgba", red |-> ONE, green |-> ONE, blue |-> ONE, alpha |-> ONE]

\* A scene whose colour depends on the direction class of the primary ray.
Paint(k) == LinearRgb(F(k[1] + 2, 4), F(k[2] + 2, 4), F(k[3] + 2, 4))

NormalFront == Vec3(ZERO, ZERO, ONE)

PaintedScene ==
    Scene(<<Ambient(WHITE, ONE)>>,
          [k \in SignKeys |-> RayHit(Diffuse(Paint(k)), FirstPosition, NormalFront,
                                     FirstDistance)])

\* A scene whose right half is a surface with a Point light on it.
HalfLitScene ==
    Scene(<<LightOnSurface>>,
          [k \in {q \in SignKeys : q[1] > 0} |->
              RayHit(Diffuse(Grey), FirstPosition, NormalFront, FirstDistance)])

RenderScenes == {PaintedScene, HalfLitScene}

\* ------------------------------------------ the voxel scene (LuxScene)

\* world::WORLD_SIZE
WORLD_SIZE == 15

\* f32::min: a NaN operand is ignored.
RMin(a, b) ==
    IF a = NAN THEN b
    ELSE IF b = NAN THEN a
    ELSE IF RLt(b, a) THEN b ELSE a

\* f32::floor, then `as i32`: NaN is 0 and an infinity saturates.
FloorToInt(a) ==
    IF a = NAN THEN 0
    ELSE IF a = INFINITY THEN 2147483647
    ELSE IF a = NEG_INFINITY THEN -2147483647 - 1
    ELSE a[1] \div a[2]

\* enum Block
Blocks == {"Air", "Dirt", "Stone", "Sand", "Grass", "Wood", "Leaves", "Water"}

\* linearize(pos).is_some()
InWorld(pos) == \A a \in 1..3 : 0 <= pos[a] /\ pos[a] < WORLD_SIZE

\* BloxScene::block: "NoBlock" is None.  blocks maps the cells that are not Air
\* to their block.
SceneBlock(blocks, pos) ==
    IF ~InWorld(pos) THEN "NoBlock"
    ELSE IF pos \in DOMAIN blocks THEN blocks[pos]
    ELSE "Air"

\* An Option<(f32, f32)> of interval.
NoInterval == [some |-> FALSE, lo |-> NAN, hi |-> NAN]
Interval(lo, hi) == [some |-> TRUE, lo |-> lo, hi |-> hi]

\* The last arm of interval, from t1 and t2.
IntervalOf(t1, t2) ==
    IF RLt(t1, t2) THEN Interval(RMax(t1, ZERO), t2) ELSE Interval(RMax(t2, ZERO), t1)

\* interval(start, speed)
interval(start, speed) ==
    IF (RLt(start, ZERO) /\ RLe(speed, ZERO))
          \/ (RGt(start, I(WORLD_SIZE)) /\ RGe(speed, ZERO))
    THEN NoInterval
    ELSE IF speed = ZERO
    THEN (IF RGe(start, ZERO) /\ RLt(start, I(WORLD_SIZE))
          THEN Interval(NEG_INFINITY, INFINITY) ELSE NoInterval)
    ELSE IntervalOf(RDiv(RNeg(start), speed), RDiv(RSub(I(WORLD_SIZE), start), speed))

\* The epsilon clamp_origin adds to each coordinate of the entry point.
EntryEpsilon == F(1, 1000)

\* An Option<Vec3> of clamp_origin.
NoOrigin == [some |-> FALSE, at |-> Vec3(NAN, NAN, NAN)]
Origin(at) == [some |-> TRUE, at |-> at]

\* The end of clamp_origin, from the interval of the three axes.
ClampTo(ray, lo, hi) ==
    IF RLe(lo, hi)
    THEN Origin(VAdd(VAdd(ray.origin, VScale(lo, ray.direction)),
                     Vec3(EntryEpsilon, EntryEpsilon, EntryEpsilon)))
    ELSE NoOrigin

\* clamp_origin after its first return, from the intervals of the axes.
ClampBy(ray, x, y, z) ==
    IF ~x.some \/ ~y.some \/ ~z.some THEN NoOrigin
    ELSE ClampTo(ray, RMax(RMax(x.lo, y.lo), z.lo), RMin(RMin(x.hi, y.hi), z.hi))

\* Whether a point lies in [0, WORLD_SIZE) on every axis.
InsideWorld(p) == \A a \in 1..3 : RGe(p[a], ZERO) /\ RLt(p[a], I(WORLD_SIZE))

\* clamp_origin(ray)
clamp_origin(ray) ==
    IF InsideWorld(ray.origin) THEN Origin(ray.origin)
    ELSE ClampBy(ray,
                 interval(ray.origin[1], ray.direction[1]),
                 interval(ray.origin[2], ray.direction[2]),
                 interval(ray.origin[3], ray.direction[3]))

\* time_to_edge(pos, block, speed), as <<time, delta>>
time_to_edge(pos, block, speed) ==
    IF RGt(speed, ZERO) THEN <<RDiv(RSub(RAdd(I(block), ONE), pos), speed), 1>>
    ELSE IF RLt(speed, ZERO) THEN <<RDiv(RSub(I(block), pos), speed), -1>>
    ELSE <<INFINITY, 0>>

\* A min_by that returns the last of several least pairs.
MinByLast(pairs) ==
    IF \E i \in 1..Len(pairs) : pairs[i][1] = NAN THEN 0
    ELSE CHOOSE i \in 1..Len(pairs) :
            /\ \A j \in 1..Len(pairs) : RLe(pairs[i][1], pairs[j][1])
            /\ \A j \in (i + 1)..Len(pairs) : pairs[j][1] # pairs[i][1]

\* Iterator::min_by with partial_cmp(..).unwrap() on the first components of
\* a sequence of pairs: the index of the first least pair, 0 where a NaN makes
\* the unwrap panic.
MinBy(pairs) ==
    IF \E i \in 1..Len(pairs) : pairs[i][1] = NAN THEN 0
    ELSE CHOOSE i \in 1..Len(pairs) :
            /\ \A j \in 1..Len(pairs) : RLe(pairs[i][1], pairs[j][1])
            /\ \A j \in 1..(i - 1) : pairs[j][1] # pairs[i][1]

\* enum Face, in the order of the array of face_and_uv, and Face::normal.
Faces == <<"XNeg", "XPos", "YNeg", "YPos", "ZNeg", "ZPos">>

FaceNormal(face) ==
    CASE face = "XNeg" -> Vec3(I(-1), ZERO, ZERO)
      [] face = "XPos" -> Vec3(ONE, ZERO, ZERO)
      [] face = "YNeg" -> Vec3(ZERO, I(-1), ZERO)
      [] face = "YPos" -> Vec3(ZERO, ONE, ZERO)
      [] face = "ZNeg" -> Vec3(ZERO, ZERO, I(-1))
      [] face = "ZPos" -> Vec3(ZERO, ZERO, ONE)

\* The array of face_and_uv: the distance of rel to each face.
FaceDistances(rel) ==
    <<<<RAbs(rel[1]), "XNeg">>, <<RAbs(RSub(ONE, rel[1])), "XPos">>,
      <<RAbs(rel[2]), "YNeg">>, <<RAbs(RSub(ONE, rel[2])), "YPos">>,
      <<RAbs(rel[3]), "ZNeg">>, <<RAbs(RSub(ONE, rel[3])), "ZPos">>>>

\* The uv of face_and_uv.
FaceUv(face, rel) ==
    CASE face = "XNeg" -> <<RSub(ONE, rel[3]), RSub(ONE, rel[2])>>
      [] face = "XPos" -> <<rel[3], RSub(ONE, rel[2])>>
      [] face = "YNeg" -> <<rel[1], rel[3]>>
      [] face = "YPos" -> <<rel[1], RSub(ONE, rel[3])>>
      [] face = "ZNeg" -> <<RSub(ONE, rel[1]), RSub(ONE, rel[2])>>
      [] face = "ZPos" -> <<rel[1], RSub(ONE, rel[2])>>

FaceAt(rel, i) ==
    IF i = 0 THEN [ok |-> FALSE, face |-> "XNeg", uv |-> <<NAN, NAN>>]
    ELSE [ok |-> TRUE, face |-> Faces[i], uv |-> FaceUv(Faces[i], rel)]

FaceOfRel(rel) == FaceAt(rel, MinBy(FaceDistances(rel)))

\* IVec3::as_vec3
AsVec3(block) == Vec3(I(block[1]), I(block[2]), I(block[3]))

\* face_and_uv(pos, block); ok is FALSE where the unwrap of partial_cmp panics.
face_and_uv(pos, block) == FaceOfRel(VSub(pos, AsVec3(block)))

\* BlockTextures::sample: the texture of a block and face (textures[k]).
TextureIndex(block, face) ==
    CASE block = "Dirt" -> 0
      [] block = "Stone" -> 1
      [] block = "Sand" -> 2
      [] block = "Grass" -> (IF face = "YPos" THEN 4 ELSE IF face = "YNeg" THEN 0 ELSE 3)
      [] block = "Wood" -> 5
      [] block = "Leaves" -> 6
      [] block = "Water" -> 7

\* struct BlockTexture: size is <<x, y>>, data the texels row by row.
BlockTexture(size, data) == [size |-> size, data |-> data]

\* f32::trunc, and Vec2::fract of glam, self - self.trunc(), on one component:
\* the fraction keeps the sign of the number, and that of an infinity is NaN.
Trunc(a) == IF ~IsFinite(a) THEN a ELSE I(Sign(a[1]) * (Abs(a[1]) \div a[2]))

Fract(a) == RSub(a, Trunc(a))

\* f32::clamp(min, max) for min <= max: a NaN stays a NaN.
RClamp(a, min, max) ==
    IF a = NAN THEN NAN
    ELSE IF RLt(a, min) THEN min
    ELSE IF RGt(a, max) THEN max
    ELSE a

\* `as u32` of a number that is finite or NaN: towards zero, 0 for a NaN and
\* for a negative number.
AsU32(a) == IF a = NAN \/ a[1] < 0 THEN 0 ELSE a[1] \div a[2]

\* (uv.x * size as f32).clamp(0.0, size as f32 - 1.0) as u32, from the
\* fraction of the component.
TexelCoord(fraction, size) ==
    AsU32(RClamp(RMul(fraction, I(size)), ZERO, RSub(I(size), ONE)))

\* The end of BlockTexture::sample, from u and v: ok is FALSE where the index
\* is outside data.
TexelAt(texture, u, v) ==
    [ok |-> v * texture.size[1] + u < Len(texture.data),
     u |-> u,
     v |-> v,
     index |-> v * texture.size[1] + u,
     texel |-> IF v * texture.size[1] + u < Len(texture.data)
               THEN texture.data[v * texture.size[1] + u + 1] ELSE NAN_COLOR]

\* BlockTexture::sample(uv)
BlockTextureSample(texture, uv) ==
    TexelAt(texture, TexelCoord(Fract(uv[1]), texture.size[1]),
            TexelCoord(Fract(uv[2]), texture.size[2]))

\* The textures of the model: textures[k] has `size` texels, each of a colour
\* of its own.
TextureColour(k, i) == LinearRgb(F(k + 1, 8), F(i, 32), F(8 - k, 8))

TextureOf(k, size) ==
    BlockTexture(size, [i \in 1..(size[1] * size[2]) |-> TextureColour(k, i)])

\* BlockTextures::sample(block, face, uv), with textures of 2 x 2 texels.
Sample(block, face, uv) ==
    Diffuse(IF block = "Air" THEN NAN_COLOR
            ELSE BlockTextureSample(TextureOf(TextureIndex(block, face), <<2, 2>>),
                                    uv).texel)

\* The check of the loop against back faces: normal.dot(*ray.direction) < 0.0.
\* FrontOrSide accepts a face the ray runs along as well.
FrontOrSide(normal, direction) == RLe(VDot(normal, direction), ZERO)

FrontFacing(normal, direction) == RLt(VDot(normal, direction), ZERO)

\* The initial current_block: floor, as_ivec3, min with WORLD_SIZE - 1.
FirstBlock(p) ==
    <<IF FloorToInt(p[1]) < WORLD_SIZE - 1 THEN FloorToInt(p[1]) ELSE WORLD_SIZE - 1,
      IF FloorToInt(p[2]) < WORLD_SIZE - 1 THEN FloorToInt(p[2]) ELSE WORLD_SIZE - 1,
      IF FloorToInt(p[3]) < WORLD_SIZE - 1 THEN FloorToInt(p[3]) ELSE WORLD_SIZE - 1>>

\* Vec3::distance
VDistance(a, b) == RSqrt(VDistanceSquared(a, b))

\* The three (time, delta) of the step of the loop.
EdgeTimes(p, block, direction) ==
    <<time_to_edge(p[1], block[1], direction[1]),
      time_to_edge(p[2], block[2], direction[2]),
      time_to_edge(p[3], block[3], direction[3])>>

\* let mut delta = IVec3::ZERO; delta[i] = delta_scalar
DeltaOf(i, delta_scalar) == [a \in 1..3 |-> IF a = i THEN delta_scalar ELSE 0]

\* What one iteration of the loop of LuxScene::cast_ray leaves: pc is "hit"
\* (return Some), "none" (return None), "walking" (the next iteration) or
\* "panicked"; entry is the record of the iteration.
Iterated(pc, p, block, distance, hit, entry) ==
    [pc |-> pc, position |-> p, block |-> block, distance |-> distance,
     hit |-> hit, entry |-> entry]

\* The record of an iteration: where it started, the block it found there, the
\* face and uv it computed for a block that is not Air, and the step it took.
Visit(p, block, distance, found, face, uv, time, delta) ==
    [position |-> p, block |-> block, distance |-> distance, found |-> found,
     face |-> face, uv |-> uv, time |-> time, delta |-> delta]

NoStep == <<0, 0, 0>>

\* The step of the loop, from the index of the least time.
StepAxis(ray, p, block, distance, found, face, uv, times, i) ==
    IF i = 0
    THEN Iterated("panicked", p, block, distance, None,
                  Visit(p, block, distance, found, face, uv, NAN, NoStep))
    ELSE Iterated("walking",
                  VAdd(p, VScale(times[i][1], ray.direction)),
                  [a \in 1..3 |-> block[a] + DeltaOf(i, times[i][2])[a]],
                  RAdd(distance, times[i][1]),
                  None,
                  Visit(p, block, distance, found, face, uv, times[i][1],
                        DeltaOf(i, times[i][2])))

StepTimes(ray, p, block, distance, found, face, uv, times) ==
    StepAxis(ray, p, block, distance, found, face, uv, times, MinBy(times))

\* The step of the loop: the next edge over the three axes.
Step(ray, p, block, distance, found, face, uv) ==
    StepTimes(ray, p, block, distance, found, face, uv,
              EdgeTimes(p, block, ray.direction))

\* The check of a block that is not Air, from its face and uv.
CheckFace(ray, p, block, distance, found, fu) ==
    IF ~fu.ok
    THEN Iterated("panicked", p, block, distance, None,
                  Visit(p, block, distance, found, "NoFace", <<NAN, NAN>>, NAN, NoStep))
    ELSE IF FrontFacing(FaceNormal(fu.face), ray.direction)
    THEN Iterated("hit", p, block, distance,
                  RayHit(Sample(found, fu.face, fu.uv), p, FaceNormal(fu.face), distance),
                  Visit(p, block, distance, found, fu.face, fu.uv, ZERO, NoStep))
    ELSE Step(ray, p, block, distance, found, fu.face, fu.uv)

\* One iteration of the loop, from the block at current_block.
IterationOn(blocks, ray, p, block, distance, found) ==
    IF found = "NoBlock"
    THEN Iterated("none", p, block, distance, None,
                  Visit(p, block, distance, found, "NoFace", <<NAN, NAN>>, ZERO, NoStep))
    ELSE IF found # "Air"
    THEN CheckFace(ray, p, block, distance, found, face_and_uv(p, block))
    ELSE Step(ray, p, block, distance, found, "NoFace", <<NAN, NAN>>)

Iteration(blocks, ray, p, block, distance) ==
    IterationOn(blocks, ray, p, block, distance, SceneBlock(blocks, block))

\* --------------------------------------------- inputs of a voxel query

\* The cell the rays of the model are aimed at, and its centre.
Target == <<2, 2, 2>>
Centre == Vec3(F(5, 2), F(5, 2), F(5, 2))

\* Grids: all Air; the target alone; the target with a block two cells on in
\* every direction of an axis; a block in a corner cell of the bottom; and a
\* block in a last cell of the grid.
AllAir == <<>>
OneBlock == [c \in {Target} |-> "Stone"]
Cross ==
    [c \in {Target, <<4, 2, 2>>, <<0, 2, 2>>, <<2, 4, 2>>, <<2, 0, 2>>,
            <<2, 2, 4>>, <<2, 2, 0>>} |->
        IF c = Target THEN "Grass" ELSE "Stone"]
Corner == [c \in {<<0, 0, 2>>, <<1, 1, 2>>} |-> "Sand"]
Rim == [c \in {<<WORLD_SIZE - 1, WORLD_SIZE - 1, 2>>} |-> "Wood"]
Grids == {AllAir, OneBlock, Cross, Corner, Rim}

\* The six directions along an axis.
AxisDirections ==
    {Vec3(I(sx), ZERO, ZERO) : sx \in {-1, 1}}
        \cup {Vec3(ZERO, I(sy), ZERO) : sy \in {-1, 1}}
        \cup {Vec3(ZERO, ZERO, I(sz)) : sz \in {-1, 1}}

\* The axis of a direction along an axis, and the two other axes.
AxisOf(d) == CHOOSE a \in 1..3 : d[a] # ZERO

\* The point of the face of the target that faces a ray of direction d, moved
\* off the centre of the face by `off` along the two other axes.
AimPoint(d, off) ==
    [a \in 1..3 |->
        IF a = AxisOf(d) THEN RSub(Centre[a], RMul(F(1, 2), d[a]))
        ELSE RAdd(Centre[a], off)]

\* How far off the centre of a face a ray is aimed: at the centre, a quarter
\* of a cell below it, and half an EntryEpsilon inside the upper edges.
AimOffsets == {ZERO, F(-1, 4), F(999, 2000)}

\* How far before the face an aimed ray starts: in the next cell, and outside
\* the grid on the side the ray comes from.
NearStart == F(3, 2)
FarStart(d) == IF RGt(d[AxisOf(d)], ZERO) THEN I(3) ELSE I(WORLD_SIZE - 2)

\* An aimed ray: along an axis, at a point of one face of the target, from
\* `back` before that point.
AimedRay(d, off, back) == Ray3d(VSub(AimPoint(d, off), VScale(back, d)), d)

AimedRays ==
    UNION {{AimedRay(d, off, back) :
               off \in AimOffsets, back \in {NearStart, FarStart(d)}} :
           d \in AxisDirections}

\* Rays that start inside the target, towards and away from the face nearest
\* to their origin; rays that run across the cells; and rays that miss the grid.
InnerRays ==
    {Ray3d(Vec3(F(5, 2), F(29, 10), F(5, 2)), d) : d \in AxisDirections}

SlantedRays ==
    {Ray3d(Vec3(F(1, 2), F(1, 2), F(5, 2)), Vec3(F(3, 5), F(4, 5), ZERO)),
     Ray3d(Vec3(I(-1), F(1, 2), F(5, 2)), Vec3(F(4, 5), F(3, 5), ZERO)),
     Ray3d(Vec3(I(-1), I(-1), F(5, 2)), Vec3(F(3, 5), F(4, 5), ZERO)),
     Ray3d(Vec3(I(4), F(5, 2), I(4)), Vec3(F(-4, 5), ZERO, F(-3, 5)))}

MissingRays ==
    {Ray3d(Vec3(I(-1), F(5, 2), F(5, 2)), Vec3(I(-1), ZERO, ZERO)),
     Ray3d(Vec3(I(-1), F(5, 2), F(5, 2)), Vec3(ZERO, ONE, ZERO)),
     Ray3d(Vec3(I(WORLD_SIZE), I(WORLD_SIZE + 1), F(5, 2)), Vec3(F(3, 5), F(-4, 5), ZERO)),
     Ray3d(Vec3(I(WORLD_SIZE + 1), F(5, 2), F(5, 2)), Vec3(ONE, ZERO, ZERO))}

\* Rays that reach the edges of two or three axes at the same time, and a ray
\* that enters through the face x = WORLD_SIZE half an EntryEpsilon below the
\* edge y = WORLD_SIZE, going up and going down.
TiedRays ==
    {Ray3d(Vec3(F(2, 5), F(1, 5), F(5, 2)), Vec3(F(3, 5), F(4, 5), ZERO)),
     Ray3d(Vec3(F(1, 2), F(1, 2), F(3, 4)), Vec3(F(2, 3), F(2, 3), F(1, 3))),
     Ray3d(Vec3(F(29, 2), F(29, 2), F(57, 4)), Vec3(F(-2, 3), F(-2, 3), F(-1, 3)))}

EdgeRays ==
    {Ray3d(Vec3(I(WORLD_SIZE + 1), F(28499, 2000), F(5, 2)),
           Vec3(F(-4, 5), F(3, 5), ZERO)),
     Ray3d(Vec3(I(WORLD_SIZE + 1), F(31499, 2000), F(5, 2)),
           Vec3(F(-4, 5), F(-3, 5), ZERO))}

\* Rays from inside the grid along +X and -Z that meet a face of the target
\* on an edge and in a corner of the face.
RimRays ==
    {Ray3d(Vec3(F(1, 2), F(5, 2), TWO), Vec3(ONE, ZERO, ZERO)),
     Ray3d(Vec3(F(1, 2), TWO, TWO), Vec3(ONE, ZERO, ZERO)),
     Ray3d(Vec3(F(5, 2), I(3), F(9, 2)), Vec3(ZERO, ZERO, I(-1)))}

VoxelRays ==
    AimedRays \cup InnerRays \cup SlantedRays \cup MissingRays \cup TiedRays
        \cup EdgeRays \cup RimRays

\* The max distances of the queries: that of a traced ray, and that of the
\* shadow ray of a Point light two units away.
MaxDistances == {INFINITY, TWO}

\* One query: the grid, and the arguments of Scene::cast_ray.
VoxelInput(blocks, ray, max_distance) ==
    [blocks |-> blocks, ray |-> ray, max_distance |-> max_distance]

VoxelInputs ==
    {VoxelInput(blocks, ray, max_distance) :
        blocks \in Grids, ray \in VoxelRays, max_distance \in MaxDistances}

\* ------------------------------------------------- the world (BloxWorld)

\* `block as u32`, and Block::is_solid.
BlockId(block) ==
    CASE block = "Air" -> 0
      [] block = "Dirt" -> 1
      [] block = "Stone" -> 2
      [] block = "Sand" -> 3
      [] block = "Grass" -> 4
      [] block = "Wood" -> 5
      [] block = "Leaves" -> 6
      [] block = "Water" -> 7

IsSolid(block) == block \in {"Dirt", "Stone", "Sand", "Grass", "Wood"}

\* The offsets of the six neighbours, in the order of update_block.
NeighborOffsets ==
    <<<<-1, 0, 0>>, <<1, 0, 0>>, <<0, -1, 0>>, <<0, 1, 0>>, <<0, 0, -1>>, <<0, 0, 1>>>>

Offset3(pos, offset) == <<pos[1] + offset[1], pos[2] + offset[2], pos[3] + offset[3]>>

\* self.block(pos + offset).unwrap_or(Block::Air) for neighbour j (from 0).
Neighbor(blocks, pos, j) ==
    IF SceneBlock(blocks, Offset3(pos, NeighborOffsets[j + 1])) = "NoBlock" THEN "Air"
    ELSE SceneBlock(blocks, Offset3(pos, NeighborOffsets[j + 1]))

\* (discard as u32) << (8 + j)
DiscardBit(blocks, pos, j) ==
    IF IsSolid(Neighbor(blocks, pos, j)) \/ SceneBlock(blocks, pos) = Neighbor(blocks, pos, j)
    THEN 2 ^ (8 + j) ELSE 0

\* Whether update_block lowers the block: Water with no Water above it.
Lowered(blocks, pos) ==
    SceneBlock(blocks, pos) = "Water" /\ Neighbor(blocks, pos, 3) # "Water"

\* The tag of update_block: the id of the block and the six discard bits,
\* without the bit of the top face for a lowered block.
MeshTag(blocks, pos) ==
    BlockId(SceneBlock(blocks, pos))
        + DiscardBit(blocks, pos, 0) + DiscardBit(blocks, pos, 1)
        + DiscardBit(blocks, pos, 2)
        + (IF Lowered(blocks, pos) THEN 0 ELSE DiscardBit(blocks, pos, 3))
        + DiscardBit(blocks, pos, 4) + DiscardBit(blocks, pos, 5)

\* The height of update_block.
BlockHeight(blocks, pos) == IF Lowered(blocks, pos) THEN F(9, 10) ELSE ONE

\* The entity of a block: its MeshTag, and the height of its Transform
\* (scale.y, and twice translation.y - pos.y).
BlockEntity(tag, height) == [tag |-> tag, height |-> height]

\* update_block for a block that is not Air: the tag of an entity that exists
\* is replaced, and a new entity is spawned where there is none.
UpdatedEntity(blocks, entities, pos) ==
    IF pos \in DOMAIN entities
    THEN BlockEntity(MeshTag(blocks, pos), entities[pos].height)
    ELSE BlockEntity(MeshTag(blocks, pos), BlockHeight(blocks, pos))

\* Dirty::All, and Dirty::push, which forgets a position.
DirtyAll == "All"

DirtyPushNothing(dirty, pos) == dirty

\* Dirty::push
DirtyPush(dirty, pos) == IF dirty = DirtyAll THEN dirty ELSE Append(dirty, pos)

\* self.blocks[i].block = block, on the cells that are not Air.
WithBlock(blocks, pos, block) ==
    [c \in (IF block = "Air" THEN DOMAIN blocks \ {pos} ELSE DOMAIN blocks \cup {pos}) |->
        IF c = pos THEN block ELSE blocks[c]]

\* The positions update calls update_block for: the dirty positions and their
\* neighbours, or every cell; the cells outside the grid return at once, and
\* a cell that is Air and has no entity is left as it is.
Touched(blocks, entities, dirty) ==
    IF dirty = DirtyAll THEN DOMAIN blocks \cup DOMAIN entities
    ELSE {c \in {dirty[k] : k \in 1..Len(dirty)}
                   \cup {Offset3(dirty[k], NeighborOffsets[j]) :
                            k \in 1..Len(dirty), j \in 1..6} :
             InWorld(c)}

\* The entities after update: update_block despawns the entity of a touched
\* cell of Air.
UpdatedEntities(blocks, entities, touched) ==
    [c \in (DOMAIN entities \ touched) \cup (touched \cap DOMAIN blocks) |->
        IF c \in touched THEN UpdatedEntity(blocks, entities, c) ELSE entities[c]]

\* ------------------------------------- the update of the path tracer

\* enum RenderMode, and the keys update asks for.
RenderModes == {"Disabled", "Continuous", "SingleFrame"}

KeyCodes == {"Digit1", "Digit2", "Digit3", "KeyT"}

\* The mode after the chain of if / else if on the keys just pressed.
ModeAfterKeys(mode, keys) ==
    IF "Digit1" \in keys THEN "Disabled"
    ELSE IF "Digit2" \in keys THEN "Continuous"
    ELSE IF "Digit3" \in keys THEN "SingleFrame"
    ELSE mode

\* *transparent after the keys.
TransparentAfterKeys(transparent, keys) ==
    IF "KeyT" \in keys THEN ~transparent ELSE transparent

\* Whether update reaches the render, for a KeyT that does not ask for it.
RebuildIgnoringT(mode, keys) ==
    /\ ModeAfterKeys(mode, keys) # "Disabled"
    /\ \/ "Digit1" \notin keys /\ "Digit2" \notin keys /\ "Digit3" \in keys
       \/ ModeAfterKeys(mode, keys) = "Continuous"

\* Whether update reaches the render: it has not returned for Disabled, and
\* rebuild was set by the branch of Digit3, by KeyT or for Continuous.
Rebuild(mode, keys) ==
    /\ ModeAfterKeys(mode, keys) # "Disabled"
    /\ \/ "Digit1" \notin keys /\ "Digit2" \notin keys /\ "Digit3" \in keys
       \/ "KeyT" \in keys
       \/ ModeAfterKeys(mode, keys) = "Continuous"

\* let scale = match *mode { .. }, where the arm of Disabled has no scale.
ScaleOf(mode) ==
    CASE mode = "SingleFrame" -> 1
      [] mode = "Continuous" -> 4
      [] mode = "Disabled" -> 0

\* Whether the match on the mode runs into unreachable!().
Unreachable(mode, keys) == Rebuild(mode, keys) /\ ModeAfterKeys(mode, keys) = "Disabled"

\* The image of the node: Image::transparent() of setup, or the pixels of a
\* render at a scale with the alpha of *transparent.
TransparentImage == [scale |-> 0, alpha |-> ZERO]

RenderedImage(scale, transparent) ==
    [scale |-> scale, alpha |-> IF transparent THEN F(1, 2) ELSE ONE]

\* ------------------------------------------------- inputs of the world

\* The cells of the calls of the model: a cell at the face x = WORLD_SIZE of
\* the grid, the cell above it and the cell beside it; and two positions
\* outside the grid.
Base == <<WORLD_SIZE - 1, 2, 2>>
Above == <<WORLD_SIZE - 1, 3, 2>>
Beside == <<WORLD_SIZE - 2, 2, 2>>
WorldCells == {Base, Above, Beside}
OutsidePositions == {<<WORLD_SIZE, 2, 2>>, <<WORLD_SIZE - 1, -1, 2>>}

WorldBlocks == {"Air", "Stone", "Water"}

\* The scenes of load_scene: empty, and a column of Water beside a Stone.
Pool == [c \in WorldCells |-> IF c = Beside THEN "Stone" ELSE "Water"]
WorldScenes == {<<>>, Pool}

\* The largest number of positions in Dirty::Blocks.
MaxDirty == 2

\* ------------------------------------------------- inputs of a sample

\* Sizes of textures, and components of a uv: inside [0, 1), 1.0, above 1,
\* below 0, and not finite.
TextureSizes == {<<1, 1>>, <<2, 2>>, <<4, 2>>, <<3, 5>>}

UvComponents ==
    {ZERO, F(1, 4), F(1, 2), F(999, 1000), ONE, F(2001, 2000), F(3, 2), F(11, 4),
     F(-1, 2000), F(-1, 2), INFINITY, NAN}

SampleInput(texture, uv) == [texture |-> texture, uv |-> uv]

SampleInputs ==
    {SampleInput(TextureOf(1, size), <<u, v>>) :
        size \in TextureSizes, u \in UvComponents, v \in UvComponents}

\* ---------------------------------------------------------------- state

VARIABLES
    renderer,      \* the Renderer (self)
    scene,         \* the scene being rendered or traced
    pc,            \* render: "off", "idle", "called", "spawning", "done", "panicked"
    threads,       \* render: thread::available_parallelism() of the current call
    chunk_size,    \* render: pixels.len() / threads
    pixels,        \* render: the output buffer
    writes,        \* render: how often each element was written in this call
    writers,       \* render: the workers that wrote each element in this call
    spawned,       \* render: the workers spawned so far
    position,      \* render: per worker, the next position in its chunk
    status,        \* render: per worker, "running", "finished" or "panicked"
    previous,      \* render: <<threads and pixels of the call before>>, <<>> if none
    runs,          \* render: the calls made so far
    t_pc,          \* trace: "off", "ready", "returned", "panicked"
    t_input,       \* trace: the input of the call
    t_out,         \* trace: the outcome of the call
    v_pc,          \* voxel: "off", "ready", "walking", "hit", "none", "panicked"
    v_input,       \* voxel: the grid and the arguments of the query
    v_position,    \* voxel: current_position
    v_block,       \* voxel: current_block
    v_distance,    \* voxel: distance
    v_hit,         \* voxel: what the query returned
    v_log,         \* voxel: the iterations of the loop so far
    s_pc,          \* sample: "off", "ready", "sampled", "panicked"
    s_input,       \* sample: the texture and the uv
    s_out,         \* sample: what BlockTexture::sample computed
    w_pc,          \* world: "off", "on"
    w_blocks,      \* world: the block of the cells that are not Air
    w_entities,    \* world: the entity of the cells that have one
    w_dirty,       \* world: Dirty::All or the positions of Dirty::Blocks
    w_last,        \* world: the last call, and the state a set_block found
    u_pc,          \* update: "off", "on"
    u_mode,        \* update: Local<RenderMode>
    u_transparent, \* update: Local<bool>
    u_display,     \* update: Node::display of the image node
    u_image,       \* update: the image of the node
    u_frame        \* update: what the last frame pressed and did

renderVars ==
    <<pc, threads, chunk_size, pixels, writes, writers, spawned, position, status,
      previous, runs>>
traceVars == <<t_pc, t_input, t_out>>
voxelVars == <<v_pc, v_input, v_position, v_block, v_distance, v_hit, v_log>>
sampleVars == <<s_pc, s_input, s_out>>
worldVars == <<w_pc, w_blocks, w_entities, w_dirty, w_last>>
updateVars == <<u_pc, u_mode, u_transparent, u_display, u_image, u_frame>>
gameVars == <<sampleVars, worldVars, updateVars>>
vars == <<renderer, scene, renderVars, traceVars, voxelVars, gameVars>>

NoOutcome == Outcome(FALSE, BLACK, <<>>)
NoInput == TraceInput(NoSurface, NormalUp, NoSurface, <<>>, DirDown, 0)

RenderOff ==
    /\ pc = "off"
    /\ threads = 0
    /\ chunk_size = 0
    /\ pixels = <<>>
    /\ writes = <<>>
    /\ writers = <<>>
    /\ spawned = 0
    /\ position = <<>>
    /\ status = <<>>
    /\ previous = <<>>
    /\ runs = 0

TraceOff ==
    /\ t_pc = "off"
    /\ t_input = NoInput
    /\ t_out = NoOutcome

VoxelOff ==
    /\ v_pc = "off"
    /\ v_input = VoxelInput(AllAir, Ray3d(Centre, DirDown), INFINITY)
    /\ v_position = Centre
    /\ v_block = Target
    /\ v_distance = ZERO
    /\ v_hit = None
    /\ v_log = <<>>

SampleOff ==
    /\ s_pc = "off"
    /\ s_input = SampleInput(TextureOf(1, <<1, 1>>), <<ZERO, ZERO>>)
    /\ s_out = TexelAt(TextureOf(1, <<1, 1>>), 0, 0)

\* The record of the last call: the positions of a set_block, and the blocks
\* and the dirty set before a set_block outside the grid.
Last(op, pos, blocks, dirty) == [op |-> op, pos |-> pos, blocks |-> blocks, dirty |-> dirty]

WorldOff ==
    /\ w_pc = "off"
    /\ w_blocks = <<>>
    /\ w_entities = <<>>
    /\ w_dirty = <<>>
    /\ w_last = Last("none", Base, <<>>, <<>>)

\* The record of a frame: the keys just pressed, *transparent before it,
\* whether unreachable!() was met, whether renderer.render was called, and
\* the scale chosen for it.
Frame(keys, transparent, unreachable, rendered, scale) ==
    [keys |-> keys, transparent |-> transparent, unreachable |-> unreachable,
     rendered |-> rendered, scale |-> scale]

NoFrame == Frame({}, FALSE, FALSE, FALSE, 0)

UpdateOff ==
    /\ u_pc = "off"
    /\ u_mode = "Continuous"
    /\ u_transparent = FALSE
    /\ u_display = "Default"
    /\ u_image = TransparentImage
    /\ u_frame = NoFrame

GameOff == SampleOff /\ WorldOff /\ UpdateOff

\* ------------------------------------------------------------ the trace

TraceInit ==
    /\ \E i \in TraceInputs :
          /\ t_input = i
          /\ scene = InputScene(i)
    /\ renderer = RendererInit(TraceCamera, <<1, 1>>)
    /\ t_pc = "ready"
    /\ t_out = NoOutcome
    /\ RenderOff
    /\ VoxelOff
    /\ GameOff

\* One call of Renderer::cast_ray, to its return or its panic.
Trace ==
    /\ t_pc = "ready"
    /\ \E out \in {cast_ray(renderer, scene, InputRay(t_input), t_input.depth, -1)} :
          /\ t_out' = out
          /\ t_pc' = IF out.ok THEN "returned" ELSE "panicked"
    /\ UNCHANGED <<renderer, scene, t_input, renderVars, voxelVars, gameVars>>

TraceNext == Trace

SpecTrace == TraceInit /\ [][TraceNext]_vars

\* ----------------------------------------------------------- the render

Width == renderer.dimensions[1]
Height == renderer.dimensions[2]

\* (self.dimensions.x * self.dimensions.y) as usize
PixelCount == Width * Height

\* The slices of slice::chunks_mut(chunk_size): their number, and the start and
\* the length of the slice of a chunk_index (from 0).
NumChunks(len, size) == (len + size - 1) \div size

\* Slices that all start at the start of the buffer.
ChunkStartShared(chunk_index, size) == 0

ChunkStart(chunk_index, size) == chunk_index * size

ChunkLen(chunk_index, len, size) ==
    IF len - chunk_index * size < size THEN len - chunk_index * size ELSE size

\* A worker that counts from the start of its own chunk.
OffsetOfFirstChunk(chunk_index, size) == 0

\* let offset = chunk_index * chunk_size

Offset(chunk_index, size) == chunk_index * size

\* The x and y of an index in a buffer of columns.
PixelOfColumnMajor(index, width) == <<index \div width, index % width>>

\* The x and y of an index: index % width and index / width.

PixelOf(index, width) == <<index % width, index \div width>>

\* Renderer::init has no check and no operation that fails: it returns a
\* Renderer for every camera and for a height of 0 as well.
Init ==
    /\ \E camera \in Cameras, w \in 1..MaxWidth, h \in 0..MaxHeight :
          renderer = RendererInit(camera, <<w, h>>)
    /\ scene \in RenderScenes
    /\ pc = "idle"
    /\ threads = 0
    /\ chunk_size = 0
    /\ pixels = <<>>
    /\ writes = <<>>
    /\ writers = <<>>
    /\ spawned = 0
    /\ position = <<>>
    /\ status = <<>>
    /\ previous = <<>>
    /\ runs = 0
    /\ TraceOff
    /\ VoxelOff
    /\ GameOff

\* Renderer::render up to its call of render_into.
Render ==
    /\ pc = "idle"
    /\ pixels' = [i \in 1..PixelCount |-> ColorBLACK]
    /\ pc' = "called"
    /\ UNCHANGED <<renderer, scene, threads, chunk_size, writes, writers, spawned,
                   position, status, previous, runs, traceVars, voxelVars, gameVars>>

\* A call of Renderer::render_into with a buffer of the caller.
RenderInto ==
    /\ pc = "idle"
    /\ \E n \in {PixelCount - 1, PixelCount, PixelCount + 1} \cap Nat :
          pixels' = [i \in 1..n |-> ColorStale]
    /\ pc' = "called"
    /\ UNCHANGED <<renderer, scene, threads, chunk_size, writes, writers, spawned,
                   position, status, previous, runs, traceVars, voxelVars, gameVars>>

\* An entry that does not compare the length of the buffer with the
\* dimensions.
EnterUnchecked ==
    /\ pc = "called"
    /\ \E n \in 1..MaxThreads :
          /\ threads' = n
          /\ chunk_size' = Len(pixels) \div n
          /\ pc' = IF Len(pixels) \div n = 0 THEN "panicked" ELSE "spawning"
    /\ writes' = [i \in 1..Len(pixels) |-> 0]
    /\ writers' = [i \in 1..Len(pixels) |-> {}]
    /\ spawned' = 0
    /\ position' = <<>>
    /\ status' = <<>>
    /\ UNCHANGED <<renderer, scene, pixels, previous, runs, traceVars, voxelVars, gameVars>>

\* Renderer::render_into up to the loop that spawns the workers: the assert,
\* threads and chunk_size.  chunks_mut panics on a chunk_size of 0.
Enter ==
    /\ pc = "called"
    /\ \E n \in 1..MaxThreads :
          /\ threads' = n
          /\ chunk_size' = Len(pixels) \div n
          /\ pc' = IF Len(pixels) # PixelCount \/ Len(pixels) \div n = 0
                   THEN "panicked" ELSE "spawning"
    /\ writes' = [i \in 1..Len(pixels) |-> 0]
    /\ writers' = [i \in 1..Len(pixels) |-> {}]
    /\ spawned' = 0
    /\ position' = <<>>
    /\ status' = <<>>
    /\ UNCHANGED <<renderer, scene, pixels, previous, runs, traceVars, voxelVars, gameVars>>

\* One iteration of the loop over the chunks: s.spawn.
Spawn ==
    /\ pc = "spawning"
    /\ spawned < NumChunks(Len(pixels), chunk_size)
    /\ spawned' = spawned + 1
    /\ position' = Append(position, 0)
    /\ status' = Append(status, "running")
    /\ UNCHANGED <<renderer, scene, pc, threads, chunk_size, pixels, writes, writers,
                   previous, runs, traceVars, voxelVars, gameVars>>

\* What a worker does with the outcome of render_pixel for the element at
\* `slot` of the buffer, the i-th of its chunk.
Store(w, i, slot, out) ==
    /\ pixels' = IF out.ok THEN [pixels EXCEPT ![slot] = ToColor(out.color)] ELSE pixels
    /\ writes' = IF out.ok THEN [writes EXCEPT ![slot] = @ + 1] ELSE writes
    /\ writers' = IF out.ok THEN [writers EXCEPT ![slot] = @ \cup {w}] ELSE writers
    /\ position' = IF out.ok THEN [position EXCEPT ![w] = i + 1] ELSE position
    /\ status' = [status EXCEPT ![w] =
                     IF ~out.ok THEN "panicked"
                     ELSE IF i + 1 = ChunkLen(w - 1, Len(pixels), chunk_size)
                     THEN "finished" ELSE "running"]

\* One iteration of the loop of worker w (chunk_index w - 1) over its chunk.
WorkerStep(w) ==
    /\ pc = "spawning"
    /\ w \in 1..spawned
    /\ status[w] = "running"
    /\ Store(w, position[w], ChunkStart(w - 1, chunk_size) + position[w] + 1,
             render_pixel(renderer, scene,
                          PixelOf(Offset(w - 1, chunk_size) + position[w], Width)))
    /\ UNCHANGED <<renderer, scene, pc, threads, chunk_size, spawned, previous, runs,
                   traceVars, voxelVars, gameVars>>

\* The end of thread::scope: every worker is joined, and the panic of a
\* worker is the panic of the call.
Join ==
    /\ pc = "spawning"
    /\ spawned = NumChunks(Len(pixels), chunk_size)
    /\ \A w \in 1..spawned : status[w] # "running"
    /\ pc' = IF \E w \in 1..spawned : status[w] = "panicked" THEN "panicked" ELSE "done"
    /\ UNCHANGED <<renderer, scene, threads, chunk_size, pixels, writes, writers,
                   spawned, position, status, previous, runs, traceVars, voxelVars, gameVars>>

\* The caller keeps the buffer and renders the same scene again.
Again ==
    /\ pc = "done"
    /\ runs + 1 < MaxRuns
    /\ runs' = runs + 1
    /\ previous' = <<[threads |-> threads, pixels |-> pixels]>>
    /\ pc' = "idle"
    /\ UNCHANGED <<renderer, scene, threads, chunk_size, pixels, writes, writers,
                   spawned, position, status, traceVars, voxelVars, gameVars>>

Next ==
    \/ Render
    \/ RenderInto
    \/ Enter
    \/ Spawn
    \/ \E w \in 1..(MaxWidth * MaxHeight) : WorkerStep(w)
    \/ Join
    \/ Again

Spec == Init /\ [][Next]_vars

\* ------------------------------------------------------ the voxel query

VoxelInit ==
    /\ v_input \in VoxelInputs
    /\ v_pc = "ready"
    /\ v_position = Centre
    /\ v_block = Target
    /\ v_distance = ZERO
    /\ v_hit = None
    /\ v_log = <<>>
    /\ renderer = RendererInit(TraceCamera, <<1, 1>>)
    /\ scene = Scene(<<>>, <<>>)
    /\ RenderOff
    /\ TraceOff
    /\ GameOff

\* LuxScene::cast_ray up to its loop: clamp_origin, with None returned when
\* the ray does not meet the grid, the first current_block and the distance
\* travelled to the start.
Clamp ==
    /\ v_pc = "ready"
    /\ \E start \in {clamp_origin(v_input.ray)} :
          /\ v_pc' = IF start.some THEN "walking" ELSE "none"
          /\ v_position' = IF start.some THEN start.at ELSE v_position
          /\ v_block' = IF start.some THEN FirstBlock(start.at) ELSE v_block
          /\ v_distance' = IF start.some THEN VDistance(v_input.ray.origin, start.at)
                            ELSE v_distance
    /\ UNCHANGED <<renderer, scene, renderVars, traceVars, gameVars, v_input, v_hit, v_log>>

\* One iteration of the loop of LuxScene::cast_ray.
Iterate ==
    /\ v_pc = "walking"
    /\ \E it \in {Iteration(v_input.blocks, v_input.ray, v_position, v_block,
                             v_distance)} :
          /\ v_pc' = it.pc
          /\ v_position' = it.position
          /\ v_block' = it.block
          /\ v_distance' = it.distance
          /\ v_hit' = it.hit
          /\ v_log' = Append(v_log, it.entry)
    /\ UNCHANGED <<renderer, scene, renderVars, traceVars, gameVars, v_input>>

VoxelNext == Clamp \/ Iterate

SpecVoxel == VoxelInit /\ [][VoxelNext]_vars

\* ----------------------------------------------------------- the sample

SampleInit ==
    /\ s_input \in SampleInputs
    /\ s_pc = "ready"
    /\ s_out = TexelAt(TextureOf(1, <<1, 1>>), 0, 0)
    /\ renderer = RendererInit(TraceCamera, <<1, 1>>)
    /\ scene = Scene(<<>>, <<>>)
    /\ RenderOff
    /\ TraceOff
    /\ VoxelOff
    /\ WorldOff
    /\ UpdateOff

\* One call of BlockTexture::sample: indexing outside data panics.
SampleTexel ==
    /\ s_pc = "ready"
    /\ \E out \in {BlockTextureSample(s_input.texture, s_input.uv)} :
          /\ s_out' = out
          /\ s_pc' = IF out.ok THEN "sampled" ELSE "panicked"
    /\ UNCHANGED <<renderer, scene, renderVars, traceVars, voxelVars, worldVars,
                   updateVars, s_input>>

SampleNext == SampleTexel

SpecSample == SampleInit /\ [][SampleNext]_vars

\* ------------------------------------------------------------ the world

\* BloxWorld::empty and BloxWorld::from_scene: no entity; Dirty::Blocks of no
\* position, or the blocks of a scene and Dirty::All.
WorldInit ==
    /\ w_pc = "on"
    /\ \/ w_blocks = <<>> /\ w_dirty = <<>>
       \/ w_blocks \in WorldScenes /\ w_dirty = DirtyAll
    /\ w_entities = <<>>
    /\ w_last = Last("none", Base, <<>>, <<>>)
    /\ renderer = RendererInit(TraceCamera, <<1, 1>>)
    /\ scene = Scene(<<>>, <<>>)
    /\ RenderOff
    /\ TraceOff
    /\ VoxelOff
    /\ SampleOff
    /\ UpdateOff

\* BloxWorld::set_block
SetBlock ==
    /\ w_pc = "on"
    /\ w_dirty = DirtyAll \/ Len(w_dirty) < MaxDirty
    /\ \E pos \in WorldCells \cup OutsidePositions, block \in WorldBlocks :
          /\ w_blocks' = IF InWorld(pos) THEN WithBlock(w_blocks, pos, block)
                          ELSE w_blocks
          /\ w_dirty' = IF InWorld(pos) THEN DirtyPush(w_dirty, pos) ELSE w_dirty
          /\ w_last' = IF InWorld(pos) THEN Last("set", pos, <<>>, <<>>)
                        ELSE Last("set_outside", pos, w_blocks, w_dirty)
    /\ UNCHANGED <<renderer, scene, renderVars, traceVars, voxelVars, sampleVars,
                   updateVars, w_pc, w_entities>>

\* BloxWorld::load_scene
LoadScene ==
    /\ w_pc = "on"
    /\ w_blocks' \in WorldScenes
    /\ w_dirty' = DirtyAll
    /\ w_last' = Last("load", Base, <<>>, <<>>)
    /\ UNCHANGED <<renderer, scene, renderVars, traceVars, voxelVars, sampleVars,
                   updateVars, w_pc, w_entities>>

\* BloxWorld::update
Update ==
    /\ w_pc = "on"
    /\ w_entities' = UpdatedEntities(w_blocks, w_entities,
                                     Touched(w_blocks, w_entities, w_dirty))
    /\ w_dirty' = <<>>
    /\ w_last' = Last("update", Base, <<>>, <<>>)
    /\ UNCHANGED <<renderer, scene, renderVars, traceVars, voxelVars, sampleVars,
                   updateVars, w_pc, w_blocks>>

WorldNext == SetBlock \/ LoadScene \/ Update

SpecWorld == WorldInit /\ [][WorldNext]_vars

\* ------------------------------------------- the update of the path tracer

\* The Locals of the system and the node of setup before the first frame.
UpdateInit ==
    /\ u_pc = "on"
    /\ u_mode = "Continuous"
    /\ u_transparent = FALSE
    /\ u_display = "Default"
    /\ u_image = TransparentImage
    /\ u_frame = NoFrame
    /\ renderer = RendererInit(TraceCamera, <<1, 1>>)
    /\ scene = Scene(<<>>, <<>>)
    /\ RenderOff
    /\ TraceOff
    /\ VoxelOff
    /\ SampleOff
    /\ WorldOff

\* One run of the system update, with the keys just pressed in its frame.
PathTracerUpdate ==
    /\ u_pc = "on"
    /\ \E keys \in SUBSET KeyCodes :
          /\ u_mode' = ModeAfterKeys(u_mode, keys)
          /\ u_transparent' = TransparentAfterKeys(u_transparent, keys)
          /\ u_display' = IF u_mode' = "Disabled" THEN "None" ELSE "Default"
          /\ u_frame' = Frame(keys, u_transparent, Unreachable(u_mode, keys),
                              Rebuild(u_mode, keys) /\ ~Unreachable(u_mode, keys),
                              IF Rebuild(u_mode, keys) THEN ScaleOf(u_mode') ELSE 0)
          /\ u_image' = IF Rebuild(u_mode, keys) /\ ~Unreachable(u_mode, keys)
                         THEN RenderedImage(ScaleOf(u_mode'), u_transparent')
                         ELSE u_image
    /\ UNCHANGED <<renderer, scene, renderVars, traceVars, voxelVars, sampleVars,
                   worldVars, u_pc>>

UpdateNext == PathTracerUpdate

SpecUpdate == UpdateInit /\ [][UpdateNext]_vars

\* --------------------------------------------------------------- claims

\* Whether render_into got as far as its workers in the current call.
Entered == pc \in {"spawning", "done", "panicked"}

\* C1: when render_into returns, every index of the buffer of width*height
\* elements has been written exactly once; and at no time has an index been
\* written twice or by two different workers, whatever the worker count.
C1_WrittenExactlyOnce ==
    /\ pc = "done" =>
          /\ Len(pixels) = PixelCount
          /\ \A i \in 1..Len(pixels) : writes[i] = 1
    /\ Entered =>
          \A i \in 1..Len(writes) : writes[i] <= 1 /\ Cardinality(writers[i]) <= 1

\* A call that returned with more workers than rows, several of which wrote.
C1_Witness ==
    /\ pc = "done"
    /\ threads > Height
    /\ spawned >= 2
    /\ \E i, j \in 1..Len(pixels) : writers[i] # writers[j]

\* C2: the buffer a call returns is the buffer the call before it returned
\* for the same camera, dimensions and scene, whatever the worker counts and
\* the interleavings of the two were; and an element written is the element
\* written before.
C2_SameBuffer ==
    \A r \in 1..Len(previous) :
        /\ pc = "done" => pixels = previous[r].pixels
        /\ Entered =>
              \A i \in 1..Len(writes) :
                  writes[i] >= 1 => pixels[i] = previous[r].pixels[i]

\* Two calls that returned with different worker counts, the second with
\* several workers, on a scene whose pixels differ.
C2_Witness ==
    /\ pc = "done"
    /\ Len(previous) >= 1
    /\ previous[1].threads # threads
    /\ spawned >= 2
    /\ scene = PaintedScene

\* C3: the buffer render returns has width*height elements and its element
\* y*width+x is render_pixel(scene, (x, y)).
C3_RowMajor ==
    pc = "done" =>
        /\ Len(pixels) = Width * Height
        /\ \A x \in 0..(Width - 1), y \in 0..(Height - 1) :
              /\ render_pixel(renderer, scene, <<x, y>>).ok
              /\ pixels[y * Width + x + 1]
                    = ToColor(render_pixel(renderer, scene, <<x, y>>).color)

\* A returned render of an image of several rows and columns whose pixels
\* differ, with a last chunk shorter than the others.
C3_Witness ==
    /\ pc = "done"
    /\ Width > 1
    /\ Height > 1
    /\ scene = PaintedScene
    /\ Len(pixels) % chunk_size # 0

\* C4: with more threads than elements render_into still has a chunk of at
\* least one element and returns with every element written.
C4_MoreThreadsThanPixels ==
    (Entered /\ Len(pixels) = PixelCount /\ threads > Len(pixels)) =>
        /\ chunk_size >= 1
        /\ pc # "panicked"

\* C5: no call of render_into with a buffer of width*height elements aborts,
\* and none of its workers does.
C5_NeverAborts ==
    (pc # "idle" /\ Len(pixels) = PixelCount) =>
        /\ pc # "panicked"
        /\ \A w \in 1..Len(status) : status[w] # "panicked"

\* The events of a kind in the log of the trace.
Events(kind) == {j \in 1..Len(t_out.log) : t_out.log[j].ev = kind}

\* Whether the trace of the model has been made.
Traced == t_pc # "ready"

\* The input is a primary ray into two mirrors that face each other.
FacingMirrors ==
    /\ t_input.first.kind = "Reflective"
    /\ t_input.second.kind = "Reflective"
    /\ t_input.depth = 0

\* C6: the trace of a primary ray between facing mirrors returns after
\* exactly max_recursion_depth recursive calls, one at each of the depths
\* 1..max_recursion_depth; the call at max_recursion_depth does not ask the
\* scene; and with mirrors of reflectivity 1 the result is the background.
C6_MirrorsTerminate ==
    (Traced /\ FacingMirrors) =>
        /\ t_pc = "returned"
        /\ Cardinality({j \in Events("trace") : t_out.log[j].depth >= 1})
              = max_recursion_depth
        /\ \A d \in 1..max_recursion_depth :
              \E j \in Events("trace") : t_out.log[j].depth = d
        /\ \A j \in Events("query") : t_out.log[j].depth < max_recursion_depth
        /\ (t_input.first.reflectivity = ONE /\ t_input.second.reflectivity = ONE)
              => t_out.color = renderer.camera.background

\* C7: a call at depth >= max_recursion_depth returns the background and
\* does not ask the scene; a call below it whose query, made with an infinite
\* max distance, reports no hit returns the background; and a call made by a
\* call at depth d is made at depth d + 1.
C7_DepthLimit ==
    Traced =>
        /\ t_input.depth >= max_recursion_depth =>
              /\ t_pc = "returned"
              /\ t_out.color = renderer.camera.background
              /\ Events("query") = {}
        /\ (t_input.depth < max_recursion_depth /\ t_input.first.kind = "None") =>
              /\ t_pc = "returned"
              /\ t_out.color = renderer.camera.background
              /\ Cardinality(Events("query")) = 1
        /\ \A j \in Events("query") :
              /\ t_out.log[j].num = INFINITY
              /\ t_out.log[j].depth < max_recursion_depth
        /\ \A j \in Events("trace") :
              \/ j = 1 /\ t_out.log[j].depth = t_input.depth
              \/ j > 1 /\ I(t_out.log[j].depth) = RAdd(t_out.log[j].num, ONE)

\* A primary ray whose trace went down to the depth limit and returned.
C7_Witness ==
    /\ t_pc = "returned"
    /\ t_input.depth = 0
    /\ \E j \in Events("trace") : t_out.log[j].depth = max_recursion_depth
    /\ \E j \in Events("query") : t_out.log[j].depth = max_recursion_depth - 1

\* C8: transmission_ray is not called where its k is negative.
C8_NoNegativeDiscriminant ==
    Traced => \A j \in Events("transmit") : RGe(t_out.log[j].num, ZERO)

\* The reflectance of the Fresnel equations for unpolarised light, with the
\* cosine of the incidence angle |dot(direction, normal)|.
FresnelIncidenceSinT(dir_dot_n, eta_i, eta_t, sin_t) ==
    IF RGt(sin_t, ONE) THEN ONE
    ELSE Reflectance(eta_i, eta_t, RAbs(dir_dot_n),
                     RSqrt(RMax(RSub(ONE, RMul(sin_t, sin_t)), ZERO)))

FresnelIncidenceDot(dir_dot_n, index) ==
    IF RGt(dir_dot_n, ZERO)
    THEN FresnelIncidenceSinT(dir_dot_n, index, ONE, SinT(dir_dot_n, index, ONE))
    ELSE FresnelIncidenceSinT(dir_dot_n, ONE, index, SinT(dir_dot_n, ONE, index))

FresnelIncidence(direction, normal, index) ==
    FresnelIncidenceDot(VDot(direction, normal), index)

\* C9: the value fresnel returns for the hit of the traced ray is the
\* reflectance of the Fresnel equations at the incidence angle of the ray, a
\* number of [0, 1].
C9_FresnelIsReflectance ==
    (Traced /\ t_input.first.kind = "Refractive") =>
        \A j \in Events("fresnel") :
            t_out.log[j].depth = t_input.depth =>
                /\ t_out.log[j].num
                      = FresnelIncidence(t_input.direction, t_input.normal,
                                         t_input.first.index)
                /\ RGe(t_out.log[j].num, ZERO)
                /\ RLe(t_out.log[j].num, ONE)

\* The scene of the input with a Diffuse first surface of the same albedo.
DiffuseTwin(i) ==
    TwoSurfaceScene(DirKey(i.direction), Diffuse(i.first.albedo), i.normal, i.second,
                    i.lights)

\* The trace of the ray that the first surface of the input reflects.
ReflectedTrace(i) ==
    cast_ray(renderer, scene,
             reflect_ray(renderer, i.direction, FirstPosition, i.normal).ray,
             i.depth + 1, i.depth)

SameColour(a, b) == a.ok /\ b.ok /\ a.color = b.color

\* C10: the trace of a ray that hits a Reflective surface of reflectivity 0
\* returns what it returns when the surface is Diffuse with the same albedo,
\* and with reflectivity 1 it returns what the trace of the reflected ray
\* returns.
C10_ReflectivityEnds ==
    (Traced /\ t_input.first.kind = "Reflective"
            /\ t_input.depth < max_recursion_depth) =>
        /\ t_input.first.reflectivity = ZERO =>
              SameColour(t_out,
                         cast_ray(renderer, DiffuseTwin(t_input), InputRay(t_input),
                                  t_input.depth, -1))
        /\ t_input.first.reflectivity = ONE =>
              SameColour(t_out, ReflectedTrace(t_input))

\* C11: a trace whose scene has one Ambient light asks the scene for no shadow
\* ray, whatever surfaces the scene has; and where the traced ray hits a
\* Diffuse surface the result is exactly albedo * colour * intensity, channel
\* by channel.
C11_AmbientExact ==
    (Traced /\ t_input.lights = <<Fill>>) =>
        /\ Events("shadow") = {}
        /\ (t_input.first.kind = "Diffuse" /\ t_input.depth < max_recursion_depth) =>
              /\ t_pc = "returned"
              /\ Events("shade") # {}
              /\ \A c \in 1..3 :
                    t_out.color[c]
                        = RMul(RMul(t_input.first.albedo[c], Fill.color[c]),
                               Fill.intensity)

\* A Diffuse hit shaded under the one Ambient light, with a second surface
\* in the scene that a shadow ray would hit.
C11_Witness ==
    /\ t_pc = "returned"
    /\ t_input.lights = <<Fill>>
    /\ t_input.first.kind = "Diffuse"
    /\ t_input.second.kind # "None"
    /\ t_input.depth = 0
    /\ Events("shade") # {}

\* What the spec says each kind of light adds to the shade of a point.
AmbientShare(albedo, light) == CScale(CMul(albedo, light.color), light.intensity)

DirectionalShare(albedo, light, normal) ==
    CDiv(CScale(CMul(albedo, light.color),
                RMul(RMax(VDot(normal, VNeg(light.direction)), ZERO),
                     light.intensity)),
         PI)

PointShareAt(albedo, light, normal, to_light, distance_squared) ==
    CDiv(CScale(CMul(albedo, light.color),
                RMul(RMax(VDot(normal, VDivS(to_light, RSqrt(distance_squared))), ZERO),
                     RDiv(light.intensity, RMul(RMul(I(4), PI), distance_squared)))),
         PI)

PointShare(albedo, light, pos, normal) ==
    PointShareAt(albedo, light, normal, VSub(light.position, pos),
                 VDistanceSquared(light.position, pos))

\* A colour with the share of a light added unless its shadow query hit.
Plus(acc, hit, share) == IF hit THEN acc ELSE CAdd(acc, share)

\* The k-th shadow query in the log of the trace.
ShadowQuery(k) ==
    t_out.log[CHOOSE j \in Events("shadow") :
                  Cardinality({q \in Events("shadow") : q <= j}) = k]

\* The traced ray hits a Diffuse surface below the depth limit.
ShadesFirst ==
    /\ Traced
    /\ t_input.first.kind = "Diffuse"
    /\ t_input.depth < max_recursion_depth

\* The shadow ray the spec gives for a light in direction to_light.
SpecShadowRay(pos, normal, to_light) ==
    Ray3d(VAdd(pos, VScale(F(1, 1000), VAdd(normal, to_light))), to_light)

\* C12: for a Directional light the shade of a point asks the scene once,
\* with the ray from pos + bias * (normal + dirToLight) in direction
\* dirToLight = -direction and an infinite max distance; on a hit the light
\* adds nothing and the lights after it are still evaluated; on no hit it
\* adds albedo * color * max(dot(normal, dirToLight), 0) * intensity / pi.
C12_DirectionalShadow ==
    /\ (ShadesFirst /\ t_input.lights \in {<<Sun>>, <<Underglow>>}) =>
          /\ t_pc = "returned"
          /\ Cardinality(Events("shadow")) = 1
          /\ ShadowQuery(1).ray
                = SpecShadowRay(FirstPosition, t_input.normal,
                                VNeg(t_input.lights[1].direction))
          /\ ShadowQuery(1).num = INFINITY
          /\ t_out.color
                = Plus(BLACK, ShadowQuery(1).hit,
                       DirectionalShare(t_input.first.albedo, t_input.lights[1],
                                        t_input.normal))
    /\ (ShadesFirst /\ t_input.lights = <<Fill, Sun, LightAbove>>) =>
          /\ t_pc = "returned"
          /\ Cardinality(Events("shadow")) = 2
          /\ ShadowQuery(1).ray
                = SpecShadowRay(FirstPosition, t_input.normal, VNeg(Sun.direction))
          /\ ShadowQuery(1).num = INFINITY
          /\ t_out.color
                = Plus(Plus(CAdd(BLACK, AmbientShare(t_input.first.albedo, Fill)),
                            ShadowQuery(1).hit,
                            DirectionalShare(t_input.first.albedo, Sun, t_input.normal)),
                       ShadowQuery(2).hit,
                       PointShare(t_input.first.albedo, LightAbove, FirstPosition,
                                  t_input.normal))

\* A facing surface shadows the Directional light of a list of three, and the
\* Point light after it is tested and adds its share.
C12_Witness ==
    /\ ShadesFirst
    /\ t_pc = "returned"
    /\ t_input.lights = <<Fill, Sun, LightAbove>>
    /\ t_input.normal = NormalUp
    /\ Cardinality(Events("shadow")) = 2
    /\ ShadowQuery(1).hit
    /\ ~ShadowQuery(2).hit
    /\ t_out.color # AmbientShare(t_input.first.albedo, Fill)

\* The traced ray hits a Diffuse surface lit by one Point light.
OnePointLight ==
    /\ ShadesFirst
    /\ t_input.lights \in {<<LightAbove>>, <<LightOnSurface>>, <<LightOnSecond>>}

\* C14: for a Point light the shade of a point asks the scene once, with a
\* shadow ray towards the light and the distance from the point to the light
\* as max distance; on no hit the light adds
\* albedo * color * max(dot(normal, dirToLight), 0)
\*   * intensity / (4 * pi * distance^2) / pi, and on a hit it adds nothing.
C14_PointLight ==
    OnePointLight =>
        /\ t_pc = "returned"
        /\ Cardinality(Events("shadow")) = 1
        /\ ShadowQuery(1).num
              = RSqrt(VDistanceSquared(t_input.lights[1].position, FirstPosition))
        /\ ShadowQuery(1).ray
              = SpecShadowRay(FirstPosition, t_input.normal,
                              VDivS(VSub(t_input.lights[1].position, FirstPosition),
                                    ShadowQuery(1).num))
        /\ t_out.color
              = Plus(BLACK, ShadowQuery(1).hit,
                     PointShare(t_input.first.albedo, t_input.lights[1], FirstPosition,
                                t_input.normal))

\* Whether the query of the model has returned.
Answered == v_pc \in {"hit", "none"}

\* C13: a hit that the voxel query returns is not farther than the max
\* distance of the query.
C13_WithinMaxDistance ==
    v_pc = "hit" => RLe(v_hit.distance, v_input.max_distance)

\* The coordinate of the plane of a face of a cell along the axis of the face.
FacePlane(block, normal) ==
    IF RGt(normal[AxisOf(normal)], ZERO) THEN I(block[AxisOf(normal)] + 1)
    ELSE I(block[AxisOf(normal)])

\* Whether two numbers differ by at most the entry epsilon.
Near(a, b) == RLe(RAbs(RSub(a, b)), EntryEpsilon)

\* Whether a point lies on the face of a cell with the given outward normal,
\* up to the entry epsilon.
OnFace(p, block, normal) ==
    /\ Near(p[AxisOf(normal)], FacePlane(block, normal))
    /\ \A a \in 1..3 :
          /\ RGe(RAdd(p[a], EntryEpsilon), I(block[a]))
          /\ RLe(RSub(p[a], EntryEpsilon), I(block[a] + 1))

\* The query is for a ray aimed along an axis at a face of the one block of
\* the grid, with only Air before it.
AimedAtOneBlock == v_input.blocks = OneBlock /\ v_input.ray \in AimedRays

\* C15: wherever the ray starts, a hit is on a cell that is not Air, at a
\* position on the face of the cell that the ray crosses from outside, at the
\* distance of that position from the origin of the ray; the query returns a
\* hit for a ray that meets such a face before it leaves the grid (a ray aimed
\* at the one block of a grid), and none for a grid of Air and for a ray that
\* misses the grid.
C15_FirstFrontFace ==
    /\ v_pc # "panicked"
    /\ v_pc = "hit" =>
          /\ SceneBlock(v_input.blocks, v_block) \notin {"Air", "NoBlock"}
          /\ OnFace(v_hit.position, v_block, v_hit.normal)
          /\ Near(v_hit.distance, VDistance(v_input.ray.origin, v_hit.position))
    /\ AimedAtOneBlock => (v_pc # "none" /\ (v_pc = "hit" => v_block = Target))
    /\ (v_input.blocks = AllAir \/ v_input.ray \in MissingRays) => v_pc # "hit"

\* The iterations of the query so far that found a block that is not Air and
\* selected a face of it that does not face the ray.
BackFaced ==
    {i \in 1..Len(v_log) :
        /\ v_log[i].face # "NoFace"
        /\ RGe(VDot(v_input.ray.direction, FaceNormal(v_log[i].face)), ZERO)}

\* C16: no hit has dot(ray.direction, normal) >= 0; an iteration that finds a
\* block whose selected face is a back face returns nothing and steps to the
\* next cell like an iteration that finds Air.
C16_NoBackFaceHit ==
    /\ v_pc = "hit" => RLt(VDot(v_input.ray.direction, v_hit.normal), ZERO)
    /\ \A i \in BackFaced :
          /\ v_log[i].found \notin {"Air", "NoBlock"}
          /\ v_log[i].delta # NoStep
          /\ Cardinality({a \in 1..3 : v_log[i].delta[a] # 0}) = 1
          /\ (i = Len(v_log)) =>
                /\ v_pc = "walking"
                /\ ~v_hit.some
                /\ v_block = [a \in 1..3 |-> v_log[i].block[a] + v_log[i].delta[a]]
          /\ (i < Len(v_log)) =>
                v_log[i + 1].block
                    = [a \in 1..3 |-> v_log[i].block[a] + v_log[i].delta[a]]

\* A query that started inside a block, passed it because its nearest face
\* is a back face, and hit the next block.
C16_Witness ==
    /\ v_pc = "hit"
    /\ BackFaced # {}
    /\ v_log[1].block = Target
    /\ v_block # Target
    /\ Len(v_log) >= 3

\* The distance along the axis of an aimed ray from its origin to the plane of
\* the face of the target that it faces.
AnalyticDistance(ray) ==
    RAbs(RSub(RSub(Centre[AxisOf(ray.direction)],
                   RMul(F(1, 2), ray.direction[AxisOf(ray.direction)])),
              ray.origin[AxisOf(ray.direction)]))

\* C17: a ray aimed along an axis at the inside of a face of the one block of
\* a grid, from inside the grid or from outside it on any of the six sides,
\* is answered by a hit on that block whose normal is the outward normal of the
\* face and whose distance is the distance from the origin to the plane of the
\* face, up to the entry epsilon.
C17_AimedAtFace ==
    AimedAtOneBlock =>
        /\ v_pc \notin {"none", "panicked"}
        /\ v_pc = "hit" =>
              /\ v_block = Target
              /\ v_hit.normal = VNeg(v_input.ray.direction)
              /\ Near(v_hit.distance, AnalyticDistance(v_input.ray))

\* The direction of the primary ray of a pixel, as render_pixel builds it.
PrimaryDirection(self, pixel) ==
    Dir3New(VSub(PixelPoint(self, pixel), self.camera.translation))

\* The point of the image plane that the primary ray of pixel <<x, y>> of a
\* 2 x 2 image of the camera of the model goes through.
QuadrantCorner(pixel) == Vec3(F(2 * pixel[1] - 1, 2), F(1 - 2 * pixel[2], 2), I(-1))

\* Whether two vectors have the same direction, up to the rounding of a
\* normalisation.
Proportional(a, b) ==
    /\ \A k \in 1..3 : Near(VCross(a, b)[k], ZERO)
    /\ RGt(VDot(a, b), ZERO)

\* C18: with the camera at the origin facing -Z, up +Y, fov 90 degrees and a
\* 2 x 2 image, the primary ray of pixel <<x, y>> starts at the translation of
\* the camera and its direction is proportional to (x - 0.5, 0.5 - y, -1); a
\* render that returns holds at y * 2 + x the colour of the quadrant that this
\* direction points into.
C18_CornerRays ==
    (renderer.camera = TraceCamera /\ Width = 2 /\ Height = 2) =>
        \A x \in 0..1, y \in 0..1 :
            /\ PrimaryDirection(renderer, <<x, y>>).ok
            /\ Proportional(PrimaryDirection(renderer, <<x, y>>).dir,
                            QuadrantCorner(<<x, y>>))
            /\ (pc = "done" /\ scene = PaintedScene) =>
                   pixels[y * 2 + x + 1] = ToColor(Paint(<<2 * x - 1, 1 - 2 * y, -1>>))

C18_Witness ==
    /\ pc = "done"
    /\ scene = PaintedScene
    /\ renderer.camera = TraceCamera
    /\ Width = 2
    /\ Height = 2

\* A buffer handed to render_into whose length is not width * height.
WrongLength == pc # "idle" /\ Len(pixels) # PixelCount

\* C19: a call of render_into with a buffer whose length is not
\* width * height ends in a panic and goes no further: no worker is spawned
\* and every element of the buffer is as the caller handed it over.
C19_LengthAsserted ==
    WrongLength =>
        /\ pc \in {"called", "panicked"}
        /\ \A i \in 1..Len(pixels) : pixels[i] = ColorStale
        /\ pc = "panicked" =>
              /\ spawned = 0
              /\ status = <<>>
              /\ \A i \in 1..Len(pixels) : writes[i] = 0

C19_Witness ==
    /\ WrongLength
    /\ pc = "panicked"
    /\ Len(pixels) > 1
    /\ threads = 1

\* A renderer built with a height of 0 or with a camera whose direction is
\* parallel to its up vector.
Degenerate ==
    \/ Height = 0
    \/ VCross(renderer.camera.direction, renderer.camera.up) = Vec3(ZERO, ZERO, ZERO)

\* C20: init with a height of 0 or with a direction parallel to up fails, so
\* no Renderer built that way is ever used to render.
C20_DegenerateRejected == Degenerate => pc = "idle"

\* What the code does with such a renderer: no render of it returns.
DegenerateNeverDone == Degenerate => pc # "done"

\* C21: a call that has entered its loop has exactly `threads` chunks, one
\* worker for each, and never more workers than `threads`; a length that
\* `threads` does not divide leaves its remainder in the last chunk.
C21_OneChunkPerThread ==
    (pc \in {"spawning", "done"} /\ Len(pixels) = PixelCount) =>
        /\ NumChunks(Len(pixels), chunk_size) = threads
        /\ spawned <= threads
        /\ ChunkLen(threads - 1, Len(pixels), chunk_size)
              = Len(pixels) - (threads - 1) * chunk_size

\* The input is a ray that hits a Refractive surface below the depth limit.
RefractiveHit ==
    /\ t_input.first.kind = "Refractive"
    /\ t_input.depth < max_recursion_depth

\* What fresnel returns for the hit of the traced ray.
InputKr == fresnel(t_input.direction, t_input.normal, t_input.first.index)

\* The calls that the call of the traced ray makes itself.
ChildCalls ==
    {j \in Events("trace") : j > 1 /\ t_out.log[j].num = I(t_input.depth)}

\* The colour of the trace of the ray that the first surface of the input
\* transmits, BLACK where kr >= 1.
RefractedColour(i) ==
    IF RLt(InputKr, ONE)
    THEN cast_ray(renderer, scene,
                  transmission_ray(renderer, i.direction, FirstPosition, i.normal,
                                   i.first.index).ray,
                  i.depth + 1, i.depth).color
    ELSE BLACK

\* C22: the trace of a ray that hits a Refractive surface at depth d below
\* the limit returns; it traces the reflected ray at d + 1, and the
\* transmitted ray at d + 1 exactly when kr < 1; it shades nothing at d; its
\* result is mix(albedo * refracted * transparency, reflected, kr); and it
\* makes at most 2^(max_recursion_depth - d + 1) - 1 calls.
C22_RefractiveArm ==
    (Traced /\ RefractiveHit) =>
        /\ t_pc = "returned"
        /\ Cardinality(ChildCalls) = (IF RLt(InputKr, ONE) THEN 2 ELSE 1)
        /\ \A j \in ChildCalls : t_out.log[j].depth = t_input.depth + 1
        /\ \A j \in Events("shade") : t_out.log[j].depth # t_input.depth
        /\ (Events("transmit") # {}) = RLt(InputKr, ONE)
        /\ \A refracted \in {RefractedColour(t_input)} :
           \A reflected \in {ReflectedTrace(t_input).color} :
              t_out.color
                 = Mix(CScale(CMul(t_input.first.albedo, refracted),
                              t_input.first.transparency),
                       reflected, InputKr)
        /\ Cardinality(Events("trace"))
              <= 2 ^ (max_recursion_depth - t_input.depth + 1) - 1

\* The same for the traces that do not abort.
RefractiveArmReturned ==
    (t_pc = "returned" /\ RefractiveHit) =>
        /\ Cardinality(ChildCalls) = (IF RLt(InputKr, ONE) THEN 2 ELSE 1)
        /\ \A j \in ChildCalls : t_out.log[j].depth = t_input.depth + 1
        /\ \A j \in Events("shade") : t_out.log[j].depth # t_input.depth
        /\ \A refracted \in {RefractedColour(t_input)} :
           \A reflected \in {ReflectedTrace(t_input).color} :
              t_out.color
                 = Mix(CScale(CMul(t_input.first.albedo, refracted),
                              t_input.first.transparency),
                       reflected, InputKr)
        /\ Cardinality(Events("trace"))
              <= 2 ^ (max_recursion_depth - t_input.depth + 1) - 1

\* The iterations of the query so far that went on to a next cell.
Steps == {i \in 1..Len(v_log) : v_log[i].delta # NoStep}

\* The axis of the step of an iteration.
StepOf(i) == CHOOSE a \in 1..3 : v_log[i].delta[a] # 0

\* Whether axis a has the least of the three times, and is the first axis
\* that has it.
FirstLeast(times, a) ==
    /\ \A b \in 1..3 : RLe(times[a][1], times[b][1])
    /\ \A b \in 1..(a - 1) : times[b][1] # times[a][1]

\* C23: a query makes at most 3 * WORLD_SIZE iterations and none of them
\* panics; an iteration that does not return moves current_block by +1 or -1
\* on one axis, the first of the axes with the least time to the edge; no
\* axis is stepped in both directions; and the iteration that finds
\* current_block outside the grid returns none.
C23_WalkEnds ==
    /\ v_pc # "panicked"
    /\ Len(v_log) <= 3 * WORLD_SIZE
    /\ \A i \in Steps :
          /\ Cardinality({a \in 1..3 : v_log[i].delta[a] # 0}) = 1
          /\ v_log[i].delta[StepOf(i)] \in {-1, 1}
          /\ FirstLeast(EdgeTimes(v_log[i].position, v_log[i].block,
                                  v_input.ray.direction), StepOf(i))
          /\ InWorld(v_log[i].block)
          /\ (IF i < Len(v_log) THEN v_log[i + 1].block ELSE v_block)
                = [a \in 1..3 |-> v_log[i].block[a] + v_log[i].delta[a]]
    /\ \A i \in Steps, j \in Steps :
          StepOf(i) = StepOf(j) => v_log[i].delta = v_log[j].delta
    /\ \A i \in 1..Len(v_log) :
          ~InWorld(v_log[i].block) => (i = Len(v_log) /\ v_pc = "none")

\* A walk that stepped on each of the three axes, met edges of two axes at the
\* same time, and left the grid.
C23_Witness ==
    /\ v_pc = "none"
    /\ Len(v_log) > 2 * WORLD_SIZE
    /\ {StepOf(i) : i \in Steps} = 1..3
    /\ \E i \in Steps :
          EdgeTimes(v_log[i].position, v_log[i].block, v_input.ray.direction)[1][1]
              = EdgeTimes(v_log[i].position, v_log[i].block,
                          v_input.ray.direction)[2][1]

\* The uv that the iteration that returned a hit handed to the sampler.
HitUv == v_log[Len(v_log)].uv

\* Whether a number lies in [0, 1).
InUnit(a) == RGe(a, ZERO) /\ RLt(a, ONE)

\* C24: the uv of every hit has both components in [0, 1).
C24_UvInUnitSquare ==
    v_pc = "hit" => (InUnit(HitUv[1]) /\ InUnit(HitUv[2]))

\* A hit in a last cell of the grid, at a start that the epsilon moved past
\* the cell: a uv beyond 1.
UvBeyondOne == v_pc = "hit" /\ (RGt(HitUv[1], ONE) \/ RGt(HitUv[2], ONE))

\* floor(x * size) clamped to [0, size - 1].
FloorClamped(x, size) ==
    IF FloorToInt(RMul(x, I(size))) < 0 THEN 0
    ELSE IF FloorToInt(RMul(x, I(size))) > size - 1 THEN size - 1
    ELSE FloorToInt(RMul(x, I(size)))

\* The uv of the sample is finite.
FiniteUv == IsFinite(s_input.uv[1]) /\ IsFinite(s_input.uv[2])

\* C25: a sample of any finite uv returns the texel at the column
\* floor(u * size.x) and the row floor(v * size.y), each clamped to
\* [0, size - 1]; its index row * size.x + column is inside the texels; and a
\* component of 1.0 selects the last column or row.
C25_FloorClamped ==
    (s_pc \in {"sampled", "panicked"} /\ FiniteUv) =>
        /\ s_pc = "sampled"
        /\ s_out.u = FloorClamped(s_input.uv[1], s_input.texture.size[1])
        /\ s_out.v = FloorClamped(s_input.uv[2], s_input.texture.size[2])
        /\ s_out.index = s_out.v * s_input.texture.size[1] + s_out.u
        /\ s_out.index \in 0..(Len(s_input.texture.data) - 1)
        /\ (s_input.uv[1] = ONE) => (s_out.u = s_input.texture.size[1] - 1)
        /\ (s_input.uv[2] = ONE) => (s_out.v = s_input.texture.size[2] - 1)

\* What holds of every sample: it does not panic, its index is inside the
\* texels, and for a uv of [0, 1) x [0, 1) the texel is that of C25.
SampleInsideData ==
    s_pc \in {"sampled", "panicked"} =>
        /\ s_pc = "sampled"
        /\ s_out.index = s_out.v * s_input.texture.size[1] + s_out.u
        /\ s_out.index \in 0..(Len(s_input.texture.data) - 1)
        /\ s_out.texel = s_input.texture.data[s_out.index + 1]
        /\ (InUnit(s_input.uv[1]) /\ InUnit(s_input.uv[2])) =>
              /\ s_out.u = FloorClamped(s_input.uv[1], s_input.texture.size[1])
              /\ s_out.v = FloorClamped(s_input.uv[2], s_input.texture.size[2])

\* Whether a point lies in the closed unit cell of a block.
InCell(p, block) ==
    \A a \in 1..3 : RLe(I(block[a]), p[a]) /\ RLe(p[a], I(block[a] + 1))

\* C26: at the start of every iteration current_position lies in the closed
\* cell of current_block, from the first iteration on; the time of every step
\* is not negative; and the distance never decreases.
C26_InsideCurrentCell ==
    /\ v_pc = "walking" => InCell(v_position, v_block)
    /\ \A i \in 1..Len(v_log) :
          /\ InCell(v_log[i].position, v_log[i].block)
          /\ i \in Steps => RGe(v_log[i].time, ZERO)
          /\ i > 1 => RGe(v_log[i].distance, v_log[i - 1].distance)
    /\ v_pc \in {"walking", "hit", "none"} /\ Len(v_log) > 0
          => RGe(v_distance, v_log[Len(v_log)].distance)

\* A step of a negative time: the distance of the query has decreased.
NegativeTime ==
    \E i \in Steps : RLt(v_log[i].time, ZERO) /\ InWorld(v_log[i].block)

\* The same for the queries whose ray starts inside the grid.
InsideCurrentCellFromInside ==
    InsideWorld(v_input.ray.origin) =>
        /\ v_pc = "walking" => InCell(v_position, v_block)
        /\ \A i \in 1..Len(v_log) :
              /\ InCell(v_log[i].position, v_log[i].block)
              /\ i \in Steps => RGe(v_log[i].time, ZERO)
              /\ i > 1 => RGe(v_log[i].distance, v_log[i - 1].distance)

\* The input is a ray that hits a Diffuse surface below the depth limit: the
\* trace is one call of shade_diffuse.
DiffuseHit ==
    /\ t_input.first.kind = "Diffuse"
    /\ t_input.depth < max_recursion_depth

NonNegative(c) == \A k \in 1..3 : RGe(c[k], ZERO)

\* C27: shade_diffuse returns for every position of a Point light, also for
\* a light at the shaded point, and no component of its result is negative.
C27_ShadeCompletes ==
    (Traced /\ DiffuseHit) =>
        /\ t_pc = "returned"
        /\ Events("panic") = {}
        /\ NonNegative(t_out.color)

\* The same for the calls that return.
ShadeNonNegative ==
    (t_pc = "returned" /\ DiffuseHit) => NonNegative(t_out.color)

\* A call of shade_diffuse that returned with a light behind the surface.
LightBehind ==
    /\ t_pc = "returned"
    /\ DiffuseHit
    /\ \E k \in 1..Len(t_input.lights) :
          /\ t_input.lights[k].kind = "Directional"
          /\ RLt(VDot(t_input.normal, VNeg(t_input.lights[k].direction)), ZERO)

\* C28: after an update every cell has an entity exactly if its block is not
\* Air, and no position is dirty; a set_block outside the grid leaves the
\* blocks and the dirty positions as they were.
C28_EntityIffBlock ==
    /\ w_last.op = "update" =>
          /\ DOMAIN w_entities = DOMAIN w_blocks
          /\ \A c \in WorldCells :
                (c \in DOMAIN w_entities) <=> (SceneBlock(w_blocks, c) # "Air")
          /\ w_dirty = <<>>
    /\ w_last.op = "set_outside" =>
          /\ w_blocks = w_last.blocks
          /\ w_dirty = w_last.dirty

\* An update that leaves some cells with an entity and some without.
C28_Witness ==
    /\ w_last.op = "update"
    /\ w_entities # <<>>
    /\ WorldCells \ DOMAIN w_entities # {}

\* C29: after an update the entity of every cell that is not Air has the tag
\* of the block and the neighbours the cell has now, and the height 0.9
\* exactly if the cell holds Water with no Water above it, 1.0 otherwise.
C29_EntityIsCurrent ==
    w_last.op = "update" =>
        \A c \in DOMAIN w_entities :
            /\ w_entities[c].tag = MeshTag(w_blocks, c)
            /\ w_entities[c].height = BlockHeight(w_blocks, c)

\* The part of C29 about the tag.
TagIsCurrent ==
    w_last.op = "update" =>
        \A c \in DOMAIN w_entities : w_entities[c].tag = MeshTag(w_blocks, c)

\* C30: a frame renders exactly if the mode after the keys is Continuous, or
\* it is SingleFrame and Digit3 or KeyT was just pressed; in Disabled the node
\* is hidden, nothing is rendered and KeyT still toggles the transparency; in
\* the other modes the node is shown; the scale is never the unreachable one.
C30_RenderExactlyWhen ==
    u_pc = "on" /\ u_frame # NoFrame =>
        /\ u_frame.rendered <=>
              \/ u_mode = "Continuous"
              \/ u_mode = "SingleFrame"
                   /\ ("Digit3" \in u_frame.keys \/ "KeyT" \in u_frame.keys)
        /\ u_mode = "Disabled" =>
              /\ u_display = "None"
              /\ ~u_frame.rendered
              /\ "KeyT" \in u_frame.keys => u_transparent # u_frame.transparent
        /\ u_mode # "Disabled" => u_display = "Default"
        /\ ~u_frame.unreachable
        /\ u_frame.rendered => u_frame.scale = IF u_mode = "SingleFrame" THEN 1 ELSE 4

\* A frame in SingleFrame that renders for KeyT alone, after a frame in
\* Disabled.
C30_Witness ==
    /\ u_mode = "SingleFrame"
    /\ u_frame.keys = {"KeyT"}
    /\ u_frame.rendered
    /\ u_image = RenderedImage(1, u_transparent)

\* A frame in Disabled in which KeyT was pressed with Digit1 and Digit3.
DisabledToggles ==
    /\ u_mode = "Disabled"
    /\ u_frame.keys = {"Digit1", "Digit3", "KeyT"}
    /\ u_transparent

====
